---- MODULE Spec2Model ----
(***************************************************************************)
(* A model of the PeaQL query engine (stevejuma/peaql): the evaluator's    *)
(* boolean connectives, the tail of executeSelect (sort, projection,       *)
(* DISTINCT, LIMIT), the grouped aggregation path, the subquery nodes, the *)
(* join data loaders, and the catalog with CREATE TABLE / INSERT / SELECT  *)
(* statement blocks.  Each part has its own specification over its own     *)
(* group of variables; the other groups stay at their idle values.         *)
(***************************************************************************)
EXTENDS Integers, Sequences, FiniteSets, TLC

VARIABLES
    \* EvalAnd / EvalOr (nodes.ts)
    lop,        \* "AND" or "OR": the node's class
    largs,      \* the values its argument nodes resolve to, in order
    lpc,        \* "ready" before resolve(), "done" after
    lresult,    \* what resolve() returned
    \* executeSelect, after the grouping and window stage (query_execute.ts)
    qrows,      \* the rows built so far: one value per target
    qvisible,   \* per target: is it a visible (named) column
    qorderSpec, \* [col, dir] pairs of the ORDER BY
    qdistinct,  \* SELECT DISTINCT
    qlimit,     \* query.limit: NullV without a LIMIT clause, else IntV(n)
    qpc,        \* "ready" before the tail runs, "done" after
    qresult,    \* the rows executeSelect returns
    \* executeSelect, grouped path, for one compiled plan (query_execute.ts)
    atable,     \* the rows of the plan's table: [k, v]
    aaggrs,     \* the plan's aggregate functions, in target order
    agrouped,   \* GROUP BY k
    avisible,   \* k is in the select list (its first target), not a hidden target
    aover,      \* every aggregator of the plan is a window function, fn(v) OVER ()
    aresolver,  \* per aggregator node: a resolver closure is installed
    ahandle,    \* per aggregator node: its handle field
    avalue,     \* per aggregator node: its value field
    asize,      \* the Allocator's size
    aaggregates,\* the aggregates Map: entries [key, store] in insertion order
    apos,       \* the next table row the scan loop will read
    apc,        \* "idle", "scan", "done" or "error" (resolve threw)
    aresult,    \* the rows the last finished resolve returned
    aresolves,  \* how many times resolve() was called on the plan
    awhere,     \* the query's WHERE clause ("none" when it has none)
    \* a plan with one subquery (nodes.ts, models.ts)
    sqkind,     \* the class holding the subquery
    sqouter,    \* how many rows the enclosing query's table has
    sqinner,    \* the subquery's table: the values of its one column
    sqvalue,    \* the holder's cache field (value, or #rows)
    sqruns,     \* subquery.resolve() calls during the current execution
    sqpos,      \* the next row of the enclosing query
    sqpc,       \* "idle", "run", "done" or "error"
    sqexecs,    \* executions of the enclosing plan started so far
    sqout,      \* what the holder gave, per access of the current execution
    \* INSERT INTO t (a, b) VALUES ... (EvalInsert, nodes.ts)
    ideclared,  \* the CREATE TABLE statement's declarations (node.columns, node.constraints)
    iconstraints, \* t.constraints, in the order EvalCreateTable pushed them
    idata,      \* t.props.data
    ibefore,    \* t.props.data when the last INSERT started
    ivalues,    \* the rows of the last INSERT statement
    ipc,        \* "ready", "ok" (the INSERT returned) or "error" (it threw)
    ierror,     \* the kind of error thrown, "" for none
    ireturned,  \* the rows the last INSERT returned
    isubmitted, \* how many rows the INSERT statements so far carried
    \* the catalog and a block of statements (context.ts, compiler.ts, nodes.ts)
    ctables,    \* Context.tables of the live context: name -> table
    cscratch,   \* Context.tables of the copy a block without DDL/DML compiles in
    cdata,      \* the data arrays, by identity
    cstatus,    \* "idle", "running" (inside a block) or "error" (the block threw)
    clive,      \* the block compiles in the live context
    cpc,        \* statements of the block compiled and executed so far
    cmodified,  \* a statement so far was a CREATE TABLE or an INSERT
    cblocks,    \* blocks started so far
    ccreated,   \* name -> the table an earlier CREATE TABLE of the block made
    cbefore,    \* Context.tables when the last statement started
    clast,      \* the last statement and what came of it
    \* one compiled JOIN (compiler.ts compileJoins) and its dataLoader closure
    jleft,      \* rows of the left table, each a record of its column x
    jright,     \* rows of the joined table, each a record of its column y
    jcond,      \* the ON condition, as parsed
    jtype,      \* joinExpr.type
    jresults,   \* the closure's results array
    jmatchedRightRows, \* the closure's set of matched right rows (by position)
    jmatchedLeftRows,  \* the closure's set of matched left rows (by position)
    jcalls,     \* how many times the dataLoader has run
    jprev,      \* the closure's state when the last run started
    jout,       \* what the last run returned
    jpath,      \* the dataLoader the last run went through
    \* one OVER clause: parsed (parser.ts) and validated (compiler.ts compileTargets)
    odecl,  \* the OVER clause as written
    oframe,  \* the frame the parser captured
    opc,  \* declared, parsed, compiled or rejected
    oerror, \* the CompilationError of a rejected window
    \* one call of windowFunction (window.ts)
    wdata,  \* the rows, each <<id, p, o>>: identity, PARTITION BY value, ORDER BY value
    wframe,  \* the frame clause
    worderBy,  \* the window's ORDER BY, as an orderSpec (empty when it has none)
    wpartitioned,  \* the window has a PARTITION BY
    wpc,  \* ready, done or threw
    wrecords, \* row id -> the window the operation was given
    \* the registry of one function name (nodes.ts FUNCTIONS) and the lookups made in it
    dregistry,  \* the overloads in registration order, each its input DTypes
    dargs,  \* the types of the operands looked up
    dfound, \* the lookups made: the registry size then, and the overload returned (0: none)
    \* the group lookup of an aggregated executeSelect (query_execute.ts 105-125)
    gtable,  \* the GROUP BY values of each table row, in table order
    gaggregates,  \* the aggregates Map: per key, the rows its store was updated with
    gpos, \* the next table row of the loop
    \* the settings of a Context and of the statements run on it (context.ts)
    ssettings,  \* Context.settings of the live Context
    sstatement,  \* the PreparedStatment, or the Expression, being run
    scontext,  \* the Context the Compiler was given
    spc,  \* idle, prepared, compiled or executed
    sdone,  \* the statements executed so far
    sbefore, \* Context.settings when the statement was prepared
    \* the placeholders of one prepared statement and the compiles of it (compiler.ts 136-202)
    pquery,  \* the select targets of the statement's Expression, whose placeholders a compile may rename
    pwritten,  \* the targets as the parser built them
    pparams,  \* the parameters of the last compile
    poutcome,  \* what the last compile did: none, plan or the error thrown
    pcompiles, \* how many times the statement was compiled
    \* one resolve of an EvalPivot (nodes.ts 1246-1304)
    vrows,  \* the rows of the grouped query, each [a, b, v]: the two pivot columns and the value column
    vpivoted,  \* the rows the pivot returned, each the axis value and its cells
    vpc, \* ready or done
    \* the calls on the aggregators of one grouped query (query_execute.ts executeSelect)
    ftable,  \* the rows of query.table
    ffilters,  \* the FILTER of each aggregator
    fgrouped,  \* whether the query has a GROUP BY column
    fvisible,  \* whether the GROUP BY column is in the select list
    fpos,  \* how many rows the loop has read
    fkeys,  \* the keys of aggregates, in insertion order
    fdone,  \* how many stores have been finalized
    flog,  \* the calls made so far, in order
    fpc, \* scan, finalize or done
    \* CREATE TABLE plans compiled before they are resolved (compiler.ts compileCreateTable, nodes.ts EvalCreateTable)
    rtables,  \* context.tables, a name to its table
    rdata,  \* the data arrays of the tables made so far
    rplans,  \* the compiled plans
    rsteps,  \* how many plans were resolved and rows inserted
    rlast, \* the last call and what the name had before it
    \* one COALESCE call (nodes.ts EvalCoalesce)
    htype,  \* the type of the arguments
    hargs,  \* the values the arguments resolve to
    hresult,  \* what resolve returned
    hpc  \* ready or done

logicVars == <<lop, largs, lpc, lresult>>
selectVars == <<qrows, qvisible, qorderSpec, qdistinct, qlimit, qpc, qresult>>
aggrVars == <<atable, aaggrs, agrouped, avisible, aover, aresolver, ahandle, avalue, asize, aaggregates,
              apos, apc, aresult, aresolves, awhere>>
subqVars == <<sqkind, sqouter, sqinner, sqvalue, sqruns, sqpos, sqpc, sqexecs, sqout>>
insertVars == <<ideclared, iconstraints, idata, ibefore, ivalues, ipc, ierror, ireturned,
                isubmitted>>
catalogVars == <<ctables, cscratch, cdata, cstatus, clive, cpc, cmodified, cblocks,
                 ccreated, cbefore, clast>>
joinVars == <<jleft, jright, jcond, jtype, jresults, jmatchedRightRows,
              jmatchedLeftRows, jcalls, jprev, jout, jpath>>
overVars == <<odecl, oframe, opc, oerror>>
windowVars == <<wdata, wframe, worderBy, wpartitioned, wpc, wrecords>>
dispatchVars == <<dregistry, dargs, dfound>>
groupVars == <<gtable, gaggregates, gpos>>
settingsVars == <<ssettings, sstatement, scontext, spc, sdone, sbefore>>
paramsVars == <<pquery, pwritten, pparams, poutcome, pcompiles>>
pivotVars == <<vrows, vpivoted, vpc>>
storeVars == <<ftable, ffilters, fgrouped, fvisible, fpos, fkeys, fdone, flog, fpc>>
plansVars == <<rtables, rdata, rplans, rsteps, rlast>>
coalesceVars == <<htype, hargs, hresult, hpc>>
vars == <<logicVars, selectVars, aggrVars, subqVars, insertVars, catalogVars, joinVars,
         overVars,
         windowVars,
         dispatchVars,
         groupVars,
         settingsVars,
         paramsVars,
         pivotVars,
         storeVars,
         plansVars,
         coalesceVars>>

\* What the actions of one part leave alone: the variables of the others.
notLogic == <<selectVars, aggrVars, subqVars, insertVars, catalogVars, joinVars, overVars, windowVars, dispatchVars, groupVars, settingsVars, paramsVars, pivotVars, storeVars, plansVars, coalesceVars>>
notSelect == <<logicVars, aggrVars, subqVars, insertVars, catalogVars, joinVars, overVars, windowVars, dispatchVars, groupVars, settingsVars, paramsVars, pivotVars, storeVars, plansVars, coalesceVars>>
notAggr == <<logicVars, selectVars, subqVars, insertVars, catalogVars, joinVars, overVars, windowVars, dispatchVars, groupVars, settingsVars, paramsVars, pivotVars, storeVars, plansVars, coalesceVars>>
notSubq == <<logicVars, selectVars, aggrVars, insertVars, catalogVars, joinVars, overVars, windowVars, dispatchVars, groupVars, settingsVars, paramsVars, pivotVars, storeVars, plansVars, coalesceVars>>
notInsert == <<logicVars, selectVars, aggrVars, subqVars, catalogVars, joinVars, overVars, windowVars, dispatchVars, groupVars, settingsVars, paramsVars, pivotVars, storeVars, plansVars, coalesceVars>>
notCatalog == <<logicVars, selectVars, aggrVars, subqVars, insertVars, joinVars, overVars, windowVars, dispatchVars, groupVars, settingsVars, paramsVars, pivotVars, storeVars, plansVars, coalesceVars>>
notJoin == <<logicVars, selectVars, aggrVars, subqVars, insertVars, catalogVars, overVars, windowVars, dispatchVars, groupVars, settingsVars, paramsVars, pivotVars, storeVars, plansVars, coalesceVars>>
notOver == <<logicVars, selectVars, aggrVars, subqVars, insertVars, catalogVars, joinVars, windowVars, dispatchVars, groupVars, settingsVars, paramsVars, pivotVars, storeVars, plansVars, coalesceVars>>
notWindow == <<logicVars, selectVars, aggrVars, subqVars, insertVars, catalogVars, joinVars, overVars, dispatchVars, groupVars, settingsVars, paramsVars, pivotVars, storeVars, plansVars, coalesceVars>>
notDispatch == <<logicVars, selectVars, aggrVars, subqVars, insertVars, catalogVars, joinVars, overVars, windowVars, groupVars, settingsVars, paramsVars, pivotVars, storeVars, plansVars, coalesceVars>>
notGroup == <<logicVars, selectVars, aggrVars, subqVars, insertVars, catalogVars, joinVars, overVars, windowVars, dispatchVars, settingsVars, paramsVars, pivotVars, storeVars, plansVars, coalesceVars>>
notSettings == <<logicVars, selectVars, aggrVars, subqVars, insertVars, catalogVars, joinVars, overVars, windowVars, dispatchVars, groupVars, paramsVars, pivotVars, storeVars, plansVars, coalesceVars>>
notParams == <<logicVars, selectVars, aggrVars, subqVars, insertVars, catalogVars, joinVars, overVars, windowVars, dispatchVars, groupVars, settingsVars, pivotVars, storeVars, plansVars, coalesceVars>>
notPivot == <<logicVars, selectVars, aggrVars, subqVars, insertVars, catalogVars, joinVars, overVars, windowVars, dispatchVars, groupVars, settingsVars, paramsVars, storeVars, plansVars, coalesceVars>>
notStore == <<logicVars, selectVars, aggrVars, subqVars, insertVars, catalogVars, joinVars, overVars, windowVars, dispatchVars, groupVars, settingsVars, paramsVars, pivotVars, plansVars, coalesceVars>>
notPlans == <<logicVars, selectVars, aggrVars, subqVars, insertVars, catalogVars, joinVars, overVars, windowVars, dispatchVars, groupVars, settingsVars, paramsVars, pivotVars, storeVars, coalesceVars>>
notCoalesce == <<logicVars, selectVars, aggrVars, subqVars, insertVars, catalogVars, joinVars, overVars, windowVars, dispatchVars, groupVars, settingsVars, paramsVars, pivotVars, storeVars, plansVars>>

(***************************************************************************)
(* Values.  A Value is a tagged record; JavaScript null and undefined are  *)
(* both NullV (isNull, types.ts).  A boolean carries 1 for true and 0 for  *)
(* false, so that JavaScript truthiness is "not null and v # 0".           *)
(***************************************************************************)
NullV == [t |-> "null", v |-> 0]
BoolV(b) == [t |-> "bool", v |-> IF b THEN 1 ELSE 0]
IntV(n) == [t |-> "int", v |-> n]

isNull(x) == x.t = "null"
truthy(x) == x.t # "null" /\ x.v # 0

\* The values a Boolean-typed node can resolve to.
Bool3 == {BoolV(TRUE), BoolV(FALSE), NullV}

\* Sequences over S of length lo..hi.
SeqsOf(S, lo, hi) == UNION {[1..n -> S] : n \in lo..hi}

(***************************************************************************)
(* EvalAnd.resolve and EvalOr.resolve                                      *)
(***************************************************************************)
MaxArgs == 3

\* EvalAnd.resolve: the first argument that is null answers null, the first
\* that is falsy answers false, whichever comes first in argument order.
RECURSIVE EvalAndFrom(_, _)
EvalAndFrom(args, i) ==
    IF i > Len(args) THEN BoolV(TRUE)
    ELSE IF isNull(args[i]) THEN NullV
    ELSE IF ~truthy(args[i]) THEN BoolV(FALSE)
    ELSE EvalAndFrom(args, i + 1)

EvalAndResolve(args) == EvalAndFrom(args, 1)

\* EvalOr.resolve: a null argument sets the pending response to null and the
\* loop goes on; the first truthy argument answers true.
RECURSIVE EvalOrFrom(_, _, _)
EvalOrFrom(args, i, response) ==
    IF i > Len(args) THEN response
    ELSE IF truthy(args[i]) THEN BoolV(TRUE)
    ELSE EvalOrFrom(args, i + 1, IF isNull(args[i]) THEN NullV ELSE response)

EvalOrResolve(args) == EvalOrFrom(args, 1, BoolV(FALSE))

LogicIdle ==
    /\ lop = "AND"
    /\ largs = <<>>
    /\ lpc = "idle"
    /\ lresult = NullV

SelectIdle ==
    /\ qrows = <<>>
    /\ qvisible = <<>>
    /\ qorderSpec = <<>>
    /\ qdistinct = FALSE
    /\ qlimit = NullV
    /\ qpc = "idle"
    /\ qresult = <<>>

AggrIdle ==
    /\ atable = <<>>
    /\ aaggrs = <<>>
    /\ agrouped = FALSE
    /\ avisible = FALSE
    /\ aover = FALSE
    /\ aresolver = <<>>
    /\ ahandle = <<>>
    /\ avalue = <<>>
    /\ asize = 0
    /\ aaggregates = <<>>
    /\ apos = 0
    /\ apc = "off"
    /\ aresult = <<>>
    /\ aresolves = 0
    /\ awhere = "none"

SubqIdle ==
    /\ sqkind = "none"
    /\ sqouter = 0
    /\ sqinner = <<>>
    /\ sqvalue = NullV
    /\ sqruns = 0
    /\ sqpos = 0
    /\ sqpc = "off"
    /\ sqexecs = 0
    /\ sqout = <<>>

InsertIdle ==
    /\ ideclared = <<>>
    /\ iconstraints = <<>>
    /\ idata = <<>>
    /\ ibefore = <<>>
    /\ ivalues = <<>>
    /\ ipc = "off"
    /\ ierror = ""
    /\ ireturned = <<>>
    /\ isubmitted = 0

CatalogIdle ==
    /\ ctables = <<>>
    /\ cscratch = <<>>
    /\ cdata = <<>>
    /\ cstatus = "off"
    /\ clive = FALSE
    /\ cpc = 0
    /\ cmodified = FALSE
    /\ cblocks = 0
    /\ ccreated = <<>>
    /\ cbefore = <<>>
    /\ clast = <<>>

JoinIdle ==
    /\ jleft = <<>>
    /\ jright = <<>>
    /\ jcond = <<>>
    /\ jtype = "off"
    /\ jresults = <<>>
    /\ jmatchedRightRows = {}
    /\ jmatchedLeftRows = {}
    /\ jcalls = 0
    /\ jprev = <<>>
    /\ jout = <<>>
    /\ jpath = "none"

OverIdle ==
    /\ odecl = <<>>
    /\ oframe = <<>>
    /\ opc = "off"
    /\ oerror = ""

WindowIdle ==
    /\ wdata = <<>>
    /\ wframe = <<>>
    /\ worderBy = <<>>
    /\ wpartitioned = FALSE
    /\ wpc = "off"
    /\ wrecords = <<>>

DispatchIdle ==
    /\ dregistry = <<>>
    /\ dargs = <<"off">>
    /\ dfound = <<>>

GroupIdle ==
    /\ gtable = <<>>
    /\ gaggregates = <<>>
    /\ gpos = 0

SettingsIdle ==
    /\ ssettings = <<>>
    /\ sstatement = <<>>
    /\ scontext = <<>>
    /\ spc = "off"
    /\ sdone = 0
    /\ sbefore = <<>>

ParamsIdle ==
    /\ pquery = <<>>
    /\ pwritten = <<>>
    /\ pparams = <<>>
    /\ poutcome = "off"
    /\ pcompiles = 0

PivotIdle ==
    /\ vrows = <<>>
    /\ vpivoted = <<>>
    /\ vpc = "off"

StoreIdle ==
    /\ ftable = <<>>
    /\ ffilters = <<>>
    /\ fgrouped = FALSE
    /\ fvisible = FALSE
    /\ fpos = 0
    /\ fkeys = <<>>
    /\ fdone = 0
    /\ flog = <<>>
    /\ fpc = "off"

PlansIdle ==
    /\ rtables = <<>>
    /\ rdata = <<>>
    /\ rplans = <<>>
    /\ rsteps = 0
    /\ rlast = <<>>

CoalesceIdle ==
    /\ htype = "off"
    /\ hargs = <<>>
    /\ hresult = NullV
    /\ hpc = "off"

\* The parts that are not the one a specification runs stay idle.
OnlyLogic == SelectIdle /\ AggrIdle /\ SubqIdle /\ InsertIdle /\ CatalogIdle /\ JoinIdle /\ OverIdle /\ WindowIdle /\ DispatchIdle /\ GroupIdle /\ SettingsIdle /\ ParamsIdle /\ PivotIdle /\ StoreIdle /\ PlansIdle /\ CoalesceIdle
OnlySelect == LogicIdle /\ AggrIdle /\ SubqIdle /\ InsertIdle /\ CatalogIdle /\ JoinIdle /\ OverIdle /\ WindowIdle /\ DispatchIdle /\ GroupIdle /\ SettingsIdle /\ ParamsIdle /\ PivotIdle /\ StoreIdle /\ PlansIdle /\ CoalesceIdle
OnlyAggr == LogicIdle /\ SelectIdle /\ SubqIdle /\ InsertIdle /\ CatalogIdle /\ JoinIdle /\ OverIdle /\ WindowIdle /\ DispatchIdle /\ GroupIdle /\ SettingsIdle /\ ParamsIdle /\ PivotIdle /\ StoreIdle /\ PlansIdle /\ CoalesceIdle
OnlySubq == LogicIdle /\ SelectIdle /\ AggrIdle /\ InsertIdle /\ CatalogIdle /\ JoinIdle /\ OverIdle /\ WindowIdle /\ DispatchIdle /\ GroupIdle /\ SettingsIdle /\ ParamsIdle /\ PivotIdle /\ StoreIdle /\ PlansIdle /\ CoalesceIdle
OnlyInsert == LogicIdle /\ SelectIdle /\ AggrIdle /\ SubqIdle /\ CatalogIdle /\ JoinIdle /\ OverIdle /\ WindowIdle /\ DispatchIdle /\ GroupIdle /\ SettingsIdle /\ ParamsIdle /\ PivotIdle /\ StoreIdle /\ PlansIdle /\ CoalesceIdle
OnlyJoin == LogicIdle /\ SelectIdle /\ AggrIdle /\ SubqIdle /\ InsertIdle /\ CatalogIdle /\ OverIdle /\ WindowIdle /\ DispatchIdle /\ GroupIdle /\ SettingsIdle /\ ParamsIdle /\ PivotIdle /\ StoreIdle /\ PlansIdle /\ CoalesceIdle
OnlyCatalog == LogicIdle /\ SelectIdle /\ AggrIdle /\ SubqIdle /\ InsertIdle /\ JoinIdle /\ OverIdle /\ WindowIdle /\ DispatchIdle /\ GroupIdle /\ SettingsIdle /\ ParamsIdle /\ PivotIdle /\ StoreIdle /\ PlansIdle /\ CoalesceIdle
OnlyOver == LogicIdle /\ SelectIdle /\ AggrIdle /\ SubqIdle /\ InsertIdle /\ CatalogIdle /\ JoinIdle /\ WindowIdle /\ DispatchIdle /\ GroupIdle /\ SettingsIdle /\ ParamsIdle /\ PivotIdle /\ StoreIdle /\ PlansIdle /\ CoalesceIdle
OnlyWindow == LogicIdle /\ SelectIdle /\ AggrIdle /\ SubqIdle /\ InsertIdle /\ CatalogIdle /\ JoinIdle /\ OverIdle /\ DispatchIdle /\ GroupIdle /\ SettingsIdle /\ ParamsIdle /\ PivotIdle /\ StoreIdle /\ PlansIdle /\ CoalesceIdle
OnlyDispatch == LogicIdle /\ SelectIdle /\ AggrIdle /\ SubqIdle /\ InsertIdle /\ CatalogIdle /\ JoinIdle /\ OverIdle /\ WindowIdle /\ GroupIdle /\ SettingsIdle /\ ParamsIdle /\ PivotIdle /\ StoreIdle /\ PlansIdle /\ CoalesceIdle
OnlyGroup == LogicIdle /\ SelectIdle /\ AggrIdle /\ SubqIdle /\ InsertIdle /\ CatalogIdle /\ JoinIdle /\ OverIdle /\ WindowIdle /\ DispatchIdle /\ SettingsIdle /\ ParamsIdle /\ PivotIdle /\ StoreIdle /\ PlansIdle /\ CoalesceIdle
OnlySettings == LogicIdle /\ SelectIdle /\ AggrIdle /\ SubqIdle /\ InsertIdle /\ CatalogIdle /\ JoinIdle /\ OverIdle /\ WindowIdle /\ DispatchIdle /\ GroupIdle /\ ParamsIdle /\ PivotIdle /\ StoreIdle /\ PlansIdle /\ CoalesceIdle
OnlyParams == LogicIdle /\ SelectIdle /\ AggrIdle /\ SubqIdle /\ InsertIdle /\ CatalogIdle /\ JoinIdle /\ OverIdle /\ WindowIdle /\ DispatchIdle /\ GroupIdle /\ SettingsIdle /\ PivotIdle /\ StoreIdle /\ PlansIdle /\ CoalesceIdle
OnlyPivot == LogicIdle /\ SelectIdle /\ AggrIdle /\ SubqIdle /\ InsertIdle /\ CatalogIdle /\ JoinIdle /\ OverIdle /\ WindowIdle /\ DispatchIdle /\ GroupIdle /\ SettingsIdle /\ ParamsIdle /\ StoreIdle /\ PlansIdle /\ CoalesceIdle
OnlyStore == LogicIdle /\ SelectIdle /\ AggrIdle /\ SubqIdle /\ InsertIdle /\ CatalogIdle /\ JoinIdle /\ OverIdle /\ WindowIdle /\ DispatchIdle /\ GroupIdle /\ SettingsIdle /\ ParamsIdle /\ PivotIdle /\ PlansIdle /\ CoalesceIdle
OnlyPlans == LogicIdle /\ SelectIdle /\ AggrIdle /\ SubqIdle /\ InsertIdle /\ CatalogIdle /\ JoinIdle /\ OverIdle /\ WindowIdle /\ DispatchIdle /\ GroupIdle /\ SettingsIdle /\ ParamsIdle /\ PivotIdle /\ StoreIdle /\ CoalesceIdle
OnlyCoalesce == LogicIdle /\ SelectIdle /\ AggrIdle /\ SubqIdle /\ InsertIdle /\ CatalogIdle /\ JoinIdle /\ OverIdle /\ WindowIdle /\ DispatchIdle /\ GroupIdle /\ SettingsIdle /\ ParamsIdle /\ PivotIdle /\ StoreIdle /\ PlansIdle

LogicInit ==
    /\ lop \in {"AND", "OR"}
    /\ largs \in SeqsOf(Bool3, 1, MaxArgs)
    /\ lpc = "ready"
    /\ lresult = NullV
    /\ OnlyLogic

ResolveAnd ==
    /\ lpc = "ready"
    /\ lop = "AND"
    /\ lresult' = EvalAndResolve(largs)
    /\ lpc' = "done"
    /\ UNCHANGED <<lop, largs, notLogic>>

ResolveOr ==
    /\ lpc = "ready"
    /\ lop = "OR"
    /\ lresult' = EvalOrResolve(largs)
    /\ lpc' = "done"
    /\ UNCHANGED <<lop, largs, notLogic>>

LogicNext == ResolveAnd \/ ResolveOr

SpecLogic == LogicInit /\ [][LogicNext]_vars

\* Kleene's strong three-valued connectives, by what the operands contain.
Has(args, x) == \E i \in 1..Len(args) : args[i] = x

KleeneAnd(args) ==
    IF Has(args, BoolV(FALSE)) THEN BoolV(FALSE)
    ELSE IF Has(args, NullV) THEN NullV
    ELSE BoolV(TRUE)

KleeneOr(args) ==
    IF Has(args, BoolV(TRUE)) THEN BoolV(TRUE)
    ELSE IF Has(args, NullV) THEN NullV
    ELSE BoolV(FALSE)

\* C7: AND and OR follow Kleene three-valued logic for every order of their
\* operands: AND is FALSE if any operand is FALSE, otherwise NULL if any is
\* NULL, otherwise TRUE; OR is TRUE if any operand is TRUE, otherwise NULL if
\* any is NULL, otherwise FALSE.
C7_KleeneAndOr ==
    lpc = "done" =>
        lresult = IF lop = "AND" THEN KleeneAnd(largs) ELSE KleeneOr(largs)

(***************************************************************************)
(* executeSelect: what happens to the rows once grouping and window        *)
(* evaluation have produced them (query_execute.ts, 287-305).  A row holds *)
(* one number per target; targets are numbered from 1 here, from 0 in the  *)
(* code.                                                                   *)
(***************************************************************************)
MaxRows == 3
MaxLimit == 2
CellVals == {1, 2}
Targets == {1, 2}

Min(a, b) == IF a < b THEN a ELSE b

\* sortColumns: the first ORDER BY column on which a and b differ decides.
RECURSIVE sortColumnsFrom(_, _, _, _)
sortColumnsFrom(orderSpec, a, b, i) ==
    IF i > Len(orderSpec) THEN 0
    ELSE LET colIndex == orderSpec[i].col
             direction == orderSpec[i].dir
         IN  IF a[colIndex] < b[colIndex]
                 THEN (IF direction = "ASC" THEN -1 ELSE 1)
             ELSE IF a[colIndex] > b[colIndex]
                 THEN (IF direction = "ASC" THEN 1 ELSE -1)
             ELSE sortColumnsFrom(orderSpec, a, b, i + 1)

sortColumns(orderSpec, a, b) == sortColumnsFrom(orderSpec, a, b, 1)

\* Array.prototype.sort is stable: x goes after every element that does not
\* compare greater than it.
InsertStable(sorted, x, orderSpec) ==
    LET k == Cardinality({i \in 1..Len(sorted) :
                             sortColumns(orderSpec, sorted[i], x) <= 0})
    IN  SubSeq(sorted, 1, k) \o <<x>> \o SubSeq(sorted, k + 1, Len(sorted))

RECURSIVE SortPrefix(_, _, _)
SortPrefix(data, n, orderSpec) ==
    IF n = 0 THEN <<>>
    ELSE InsertStable(SortPrefix(data, n - 1, orderSpec), data[n], orderSpec)

\* multiColumnSort: a copy when there is no ORDER BY, else the stable sort.
multiColumnSort(data, orderSpec) ==
    IF Len(orderSpec) = 0 THEN data
    ELSE SortPrefix(data, Len(data), orderSpec)

\* columns = targets.filter(it => it.visible), as target indexes.
visibleColumns(visible) ==
    SelectSeq([i \in 1..Len(visible) |-> i], LAMBDA i : visible[i])

\* rows.map(row => columns.map(it => row[it.index]))
projectRows(rows, columns) ==
    [r \in 1..Len(rows) |-> [c \in 1..Len(columns) |-> rows[r][columns[c]]]]

\* The DISTINCT loop: an entry equal (isEqual) to a row already kept is
\* dropped, so the first of equal rows stays, in its place.
RECURSIVE distinctPrefix(_, _)
distinctPrefix(existing, n) ==
    IF n = 0 THEN <<>>
    ELSE LET kept == distinctPrefix(existing, n - 1)
         IN  IF \E i \in 1..Len(kept) : kept[i] = existing[n]
             THEN kept
             ELSE Append(kept, existing[n])

distinctRows(rows) == distinctPrefix(rows, Len(rows))

\* if (query.limit) rows = rows.slice(0, query.limit)
limitRows(rows, limit) ==
    IF truthy(limit) THEN SubSeq(rows, 1, Min(limit.v, Len(rows))) ELSE rows

\* Lines 287-305 of executeSelect, in the order the code runs them.
executeSelectTail(rows, visible, orderSpec, distinct, limit) ==
    LET sorted == multiColumnSort(rows, orderSpec)
        projected == projectRows(sorted, visibleColumns(visible))
        deduped == IF distinct THEN distinctRows(projected) ELSE projected
    IN  limitRows(deduped, limit)

OrderSpecs ==
    {<<>>} \cup
    {<<[col |-> c, dir |-> d]>> : c \in Targets, d \in {"ASC", "DESC"}} \cup
    {<<[col |-> 2, dir |-> d], [col |-> 1, dir |-> "ASC"]>> : d \in {"ASC", "DESC"}}

\* The first target is a visible column; the second is either visible or a
\* hidden target added for ORDER BY / GROUP BY.
SelectInit ==
    /\ qrows \in SeqsOf([1..2 -> CellVals], 0, MaxRows)
    /\ qvisible \in {<<TRUE, TRUE>>, <<TRUE, FALSE>>}
    /\ qorderSpec \in OrderSpecs
    /\ qdistinct \in BOOLEAN
    /\ qlimit \in {NullV} \cup {IntV(n) : n \in 0..MaxLimit}
    /\ qpc = "ready"
    /\ qresult = <<>>
    /\ OnlySelect

ExecuteSelect ==
    /\ qpc = "ready"
    /\ qresult' = executeSelectTail(qrows, qvisible, qorderSpec, qdistinct, qlimit)
    /\ qpc' = "done"
    /\ UNCHANGED <<qrows, qvisible, qorderSpec, qdistinct, qlimit, notSelect>>

SelectNext == ExecuteSelect

SpecSelect == SelectInit /\ [][SelectNext]_vars

\* The rows the code has in hand just before it looks at LIMIT.
RowsBeforeLimit ==
    LET projected == projectRows(multiColumnSort(qrows, qorderSpec),
                                 visibleColumns(qvisible))
    IN  IF qdistinct THEN distinctRows(projected) ELSE projected

\* A LIMIT n, when present, keeps the first min(n, k) of k rows.
firstRows(rows, limit) ==
    IF isNull(limit) THEN rows ELSE SubSeq(rows, 1, Min(limit.v, Len(rows)))

\* The four steps in the order sort, DISTINCT, LIMIT, projection: DISTINCT
\* and LIMIT see the full rows, hidden targets included, and the projection
\* to the visible columns comes last.
sortDistinctLimitProject(rows, visible, orderSpec, distinct, limit) ==
    LET sorted == multiColumnSort(rows, orderSpec)
        deduped == IF distinct THEN distinctRows(sorted) ELSE sorted
    IN  projectRows(firstRows(deduped, limit), visibleColumns(visible))

\* C8: after grouping and window evaluation the query applies, in this
\* order, the multi-column sort, DISTINCT de-duplication keeping the
\* first-seen row, LIMIT slicing, and only then the projection to the
\* visible columns, so hidden targets are stripped after DISTINCT and LIMIT.
C8_HiddenStrippedLast ==
    qpc = "done" =>
        qresult = sortDistinctLimitProject(qrows, qvisible, qorderSpec,
                                           qdistinct, qlimit)

\* DISTINCT with a hidden target that tells apart two rows equal on the
\* visible column, and no LIMIT: the code returns one row where the four
\* steps in the stated order return two.
HiddenTargetUnderDistinct ==
    /\ qpc = "done"
    /\ qdistinct
    /\ isNull(qlimit)
    /\ qvisible = <<TRUE, FALSE>>
    /\ Len(qrows) = 2
    /\ qrows[1][1] = qrows[2][1]
    /\ qrows[1][2] # qrows[2][2]
    /\ Len(qresult) = 1
    /\ Len(sortDistinctLimitProject(qrows, qvisible, qorderSpec,
                                    qdistinct, qlimit)) = 2

\* C9: with LIMIT n, for every n >= 0, the result is exactly the first
\* min(n, k) of the k rows that remain after ordering and DISTINCT.
C9_LimitFirstN ==
    (qpc = "done" /\ ~isNull(qlimit)) =>
        qresult = SubSeq(RowsBeforeLimit, 1, Min(qlimit.v, Len(RowsBeforeLimit)))

(***************************************************************************)
(* An OVER clause from its text to its frame: the parser captures the      *)
(* frame (parser.ts, node Over).                                           *)
(***************************************************************************)
MaxOffset == 2

\* Infinity, for the values the model compares it with.
Infinity == 1000

\* A frame bound as written: UNBOUNDED, CURRENT ROW, or an integer offset.
Unbounded == [kind |-> "Unbounded", n |-> 0]
Current == [kind |-> "Current", n |-> 0]
Offset(n) == [kind |-> "Integer", n |-> n]
FrameBounds == {Unbounded, Current} \cup {Offset(n) : n \in 1..MaxOffset}
Excludes == {"NONE", "CURRENT", "GROUP", "TIES"}
OrderTypes == {"Number", "String", "Boolean"}

\* OVER ([ORDER BY c1 [, c2]] [type BETWEEN lower AND upper [EXCLUDE e]]):
\* type "" is a clause without a frame; orderType is the type of c1.
OverClauses ==
    { d \in [type : {"", "ROWS", "GROUPS", "RANGE"}, lower : FrameBounds,
             upper : FrameBounds, exclude : Excludes, orderBy : 0..2,
             orderType : OrderTypes] :
        /\ d.type = "" => (d.lower = Unbounded /\ d.upper = Unbounded /\ d.exclude = "NONE")
        /\ d.orderBy = 0 => d.orderType = "Number" }

\* parser.ts 787-835: the frame of an Over node.  The upper bound's integer
\* is read from the Lower child; the content of a missing node is "", and
\* +"" is 0.
parseFrame(decl) ==
    LET hasRange == decl.type # ""
        type == IF decl.type # "" THEN decl.type
                ELSE IF decl.orderBy > 0 THEN "RANGE" ELSE "ROWS"
        preceding0 == Infinity
        following0 == IF decl.orderBy > 0 /\ decl.type = "" THEN 0 ELSE Infinity
        lowerInteger == IF decl.lower.kind = "Integer" THEN decl.lower.n ELSE 0
    IN  [type |-> type,
         preceding |-> IF ~hasRange THEN preceding0
                       ELSE IF decl.lower.kind = "Unbounded" THEN Infinity
                       ELSE IF decl.lower.kind = "Integer" THEN decl.lower.n
                       ELSE 0,
         following |-> IF ~hasRange THEN following0
                       ELSE IF decl.upper.kind = "Unbounded" THEN Infinity
                       ELSE IF decl.upper.kind = "Integer" THEN lowerInteger
                       ELSE 0,
         exclude |-> decl.exclude]

(***************************************************************************)
(* windowFunction (window.ts): the rows are partitioned, each partition is *)
(* sorted by the window's ORDER BY, and every row gets the window its      *)
(* frame and EXCLUDE clause select.  A row is the tuple <<id, p, o>>; the  *)
(* id makes two rows of equal values different objects.                    *)
(***************************************************************************)
MaxWindowRows == 3
PartitionVals == {1, 2}
OrderVals == {1, 2}

Max(a, b) == IF a > b THEN a ELSE b

\* props.partitionBy, or the default that puts every row under ALL.
partitionBy(item, partitioned) == IF partitioned THEN <<item[2]>> ELSE <<"ALL">>

\* Step 1: the partitions in the order their keys are first seen.
RECURSIVE partitionsFrom(_, _, _, _)
partitionsFrom(data, i, partitioned, partitions) ==
    IF i > Len(data) THEN partitions
    ELSE LET id == partitionBy(data[i], partitioned)
             found == {k \in 1..Len(partitions) : partitions[k].key = id}
         IN  partitionsFrom(data, i + 1, partitioned,
                 IF found = {}
                     THEN Append(partitions, [key |-> id, items |-> <<data[i]>>])
                     ELSE LET k == CHOOSE k \in found : TRUE
                          IN  [partitions EXCEPT ![k].items = Append(@, data[i])])

\* props.orderValues(item): the ORDER BY values of a row with their
\* directions.
orderValues(item, orderBy) ==
    [k \in 1..Len(orderBy) |-> <<item[orderBy[k].col], orderBy[k].dir>>]

\* ROWS: partition.slice(rowStart, rowEnd), i counted from 1 here.
rowsWindow(partition, i, frame) ==
    LET rowStart == Max(0, (i - 1) - frame.preceding)
        rowEnd == Min(Len(partition), (i - 1) + frame.following + 1)
    IN  SubSeq(partition, rowStart + 1, rowEnd)

\* GROUPS: the buckets of equal ORDER BY values, in order of first
\* appearance in the sorted partition.
RECURSIVE groupValues(_, _, _, _)
groupValues(partition, k, orderBy, groups) ==
    IF k > Len(partition) THEN groups
    ELSE LET id == orderValues(partition[k], orderBy)
             found == {g \in 1..Len(groups) : groups[g].key = id}
         IN  groupValues(partition, k + 1, orderBy,
                 IF found = {}
                     THEN Append(groups, [key |-> id, items |-> <<partition[k]>>])
                     ELSE LET g == CHOOSE g \in found : TRUE
                          IN  [groups EXCEPT ![g].items = Append(@, partition[k])])

RECURSIVE Flat(_, _, _)
Flat(groups, from, to) ==
    IF from > to THEN <<>> ELSE groups[from].items \o Flat(groups, from + 1, to)

groupsWindow(partition, i, frame, orderBy) ==
    LET orderedGroups == groupValues(partition, 1, orderBy, <<>>)
        groupIndex == (CHOOSE g \in 1..Len(orderedGroups) :
                          \E k \in 1..Len(orderedGroups[g].items) :
                              orderedGroups[g].items[k] = partition[i]) - 1
        groupStart == Max(0, groupIndex - frame.preceding)
        groupEnd == Min(Len(orderedGroups), groupIndex + frame.following + 1)
    IN  Flat(orderedGroups, groupStart + 1, groupEnd)

\* RANGE: the rows whose ORDER BY value lies within the offsets of the
\* current row's.
rangeWindow(partition, i, frame, orderBy) ==
    LET refValue == partition[i][orderBy[1].col]
        dir == orderBy[1].dir
    IN  SelectSeq(partition, LAMBDA item :
            LET value == item[orderBy[1].col]
            IN  IF dir = "ASC"
                    THEN refValue - frame.preceding <= value
                         /\ value <= refValue + frame.following
                    ELSE refValue + frame.preceding >= value
                         /\ value >= refValue - frame.following)

\* The EXCLUDE step, applied last.  Without ORDER BY props.orderValues is
\* undefined.
excludeWindow(window, partition, i, frame, orderBy) ==
    IF frame.exclude = "CURRENT"
        THEN SelectSeq(window, LAMBDA it : it # partition[i])
    ELSE IF frame.exclude = "GROUP"
        THEN IF Len(orderBy) > 0
                 THEN SelectSeq(window, LAMBDA it :
                          orderValues(it, orderBy) # orderValues(partition[i], orderBy))
                 ELSE <<>>
    ELSE IF frame.exclude = "TIES"
        THEN IF Len(orderBy) > 0
                 THEN SelectSeq(window, LAMBDA it :
                          it = partition[i]
                          \/ orderValues(it, orderBy) # orderValues(partition[i], orderBy))
                 ELSE <<>>
    ELSE window

\* Step 2.2 for the row at position i of its sorted partition: the window,
\* or the throw of a call of the undefined props.orderValues.
windowOf(partition, i, frame, orderBy) ==
    IF frame.type \in {"GROUPS", "RANGE"} /\ Len(orderBy) = 0
        THEN [threw |-> TRUE, window |-> <<>>]
    ELSE [threw |-> FALSE,
          window |-> excludeWindow(
              IF frame.type = "ROWS" THEN rowsWindow(partition, i, frame)
              ELSE IF frame.type = "GROUPS" THEN groupsWindow(partition, i, frame, orderBy)
              ELSE rangeWindow(partition, i, frame, orderBy),
              partition, i, frame, orderBy)]

\* The partitions, each sorted by orderBy when there is one.
sortedPartitions(data, orderBy, partitioned) ==
    LET partitions == partitionsFrom(data, 1, partitioned, <<>>)
    IN  [k \in 1..Len(partitions) |-> multiColumnSort(partitions[k].items, orderBy)]

\* Where the row of an id stands: <<partition, position>>.
placeOf(sorted, id) ==
    CHOOSE pos \in UNION {{<<k, i>> : i \in 1..Len(sorted[k])} : k \in 1..Len(sorted)} :
        sorted[pos[1]][pos[2]][1] = id

\* windowFunction: the window of every row, by row id.
windowFunction(data, frame, orderBy, partitioned) ==
    LET sorted == sortedPartitions(data, orderBy, partitioned)
        one(id) == windowOf(sorted[placeOf(sorted, id)[1]], placeOf(sorted, id)[2],
                            frame, orderBy)
    IN  [threw |-> \E id \in 1..Len(data) : one(id).threw,
         records |-> [id \in 1..Len(data) |-> one(id).window]]

(***************************************************************************)
(* executeSelect, grouped path (query_execute.ts 95-157), with the         *)
(* aggregate functions count, sum, avg, min and max (query_env.ts).  The   *)
(* plan's table has an integer key column k and a nullable integer column  *)
(* v; every aggregate takes v as its operand, except count_star, whose     *)
(* operand is the asterisk constant, which resolves to null.  A Decimal is *)
(* carried as the exact fraction v / d in lowest terms.  A plan of window  *)
(* functions, fn(v) OVER (), goes through the path that is not grouped and *)
(* the window stage (query_execute.ts 158-286, EvalWindow.execute).        *)
(***************************************************************************)
MaxTableRows == 2
MaxResolves == 2
KeyVals == {1, 2}
OperandVals == {NullV, IntV(1), IntV(2)}

ListV(items) == [t |-> "list", items |-> items]
ThrownV == [t |-> "thrown", v |-> 0]

RECURSIVE Gcd(_, _)
Gcd(a, b) == IF b = 0 THEN a ELSE Gcd(b, a % b)

Dec(n, d) == [t |-> "dec", v |-> n \div Gcd(n, d), d |-> d \div Gcd(n, d)]

RECURSIVE SumItems(_, _)
SumItems(items, n) == IF n = 0 THEN 0 ELSE SumItems(items, n - 1) + items[n].v

\* count: init [], update pushes the operand unless it is a null that is not
\* the asterisk, finalize leaves the length.
count(slot, state, value, asterisk) ==
    CASE state = "init" -> ListV(<<>>)
      [] state = "update" ->
            IF ~asterisk /\ isNull(value) THEN slot
            ELSE ListV(Append(slot.items, value))
      [] OTHER -> IntV(Len(slot.items))

\* sum over an integer operand: init 0; update throws OperationalError when
\* typeOf(value) is not the operand's type, which is the case for null.
sum(slot, state, value) ==
    CASE state = "init" -> IntV(0)
      [] state = "update" ->
            IF isNull(value) THEN ThrownV ELSE IntV(slot.v + value.v)
      [] OTHER -> slot

\* avg: init [], update pushes non-null operands as Decimals, finalize leaves
\* their sum divided by their number, or Decimal.ZERO for none.
avg(slot, state, value) ==
    CASE state = "init" -> ListV(<<>>)
      [] state = "update" ->
            IF isNull(value) THEN slot ELSE ListV(Append(slot.items, value))
      [] OTHER ->
            IF Len(slot.items) > 0
            THEN Dec(SumItems(slot.items, Len(slot.items)), Len(slot.items))
            ELSE Dec(0, 1)

min(slot, state, value) ==
    CASE state = "init" -> NullV
      [] state = "update" ->
            IF ~isNull(value) /\ (isNull(slot) \/ value.v < slot.v)
            THEN value ELSE slot
      [] OTHER -> slot

max(slot, state, value) ==
    CASE state = "init" -> NullV
      [] state = "update" ->
            IF ~isNull(value) /\ (isNull(slot) \/ value.v > slot.v)
            THEN value ELSE slot
      [] OTHER -> slot

\* The callback createAggregatorFunction registered under the name fn.
callback(fn, slot, state, value) ==
    CASE fn = "count_star" -> count(slot, state, NullV, TRUE)
      [] fn = "count" -> count(slot, state, value, FALSE)
      [] fn = "sum" -> sum(slot, state, value)
      [] fn = "avg" -> avg(slot, state, value)
      [] fn = "min" -> min(slot, state, value)
      [] OTHER -> max(slot, state, value)

\* Allocator.createStore: size slots, all null.
createStore(size) == [j \in 1..size |-> NullV]

\* aggr.forEach(it => it.<state>(store, context)), from the i-th aggregator
\* on; a throwing callback ends the loop with the store as it then is.
RECURSIVE forEachAggr(_, _, _, _, _, _)
forEachAggr(store, fns, handles, state, value, i) ==
    IF i > Len(fns) THEN [store |-> store, threw |-> FALSE]
    ELSE LET h == handles[i].v + 1
             slot == callback(fns[i], store[h], state, value)
         IN  IF slot = ThrownV THEN [store |-> store, threw |-> TRUE]
             ELSE forEachAggr([store EXCEPT ![h] = slot], fns, handles,
                              state, value, i + 1)

\* EvalAggregator.finalize: value = store[handle], for every aggregator.
valuesOf(store, handles) == [i \in 1..Len(handles) |-> store[handles[i].v + 1]]

\* isEqual on values: a null equals exactly the nulls; a number or a
\* Decimal reaches the last line, a === b (the Decimal class has eq but no
\* isEqual method).  On numbers === compares the values; on objects it
\* compares identity, which a Decimal object carries here as its ref, so
\* two Decimal objects are isEqual only when they are one object.  On
\* arrays isEqual compares lengths and then elementwise.
isEqual(a, b) == IF isNull(a) THEN isNull(b) ELSE a = b
isEqualArray(a, b) ==
    /\ Len(a) = Len(b)
    /\ \A i \in 1..Len(a) : isEqual(a[i], b[i])

\* [...aggregates.keys()].find(k => isEqual(k, id)): the entry's position,
\* or 0 when there is none.
findKey(aggregates, id) ==
    IF \E e \in 1..Len(aggregates) : isEqualArray(aggregates[e].key, id)
    THEN CHOOSE e \in 1..Len(aggregates) :
             /\ isEqualArray(aggregates[e].key, id)
             /\ \A f \in 1..(e - 1) : ~isEqualArray(aggregates[f].key, id)
    ELSE 0

\* isNull(where) || where.resolve(context), for the WHERE clause v > 1:
\* EvalBinaryOp.resolve answers null on a null operand, and null is falsy.
WhereClauses == {"none", "v > 1"}
whereAccepts(where, row) ==
    where = "none" \/ (~isNull(row.v) /\ row.v.v > 1)

\* The body of the scan loop for one table row.
scanRow(aggregates, row, fns, handles, size, grouped, where) ==
    IF ~whereAccepts(where, row)
    THEN [aggregates |-> aggregates, created |-> FALSE, threw |-> FALSE]
    ELSE
    LET id == IF grouped THEN <<IntV(row.k)>> ELSE <<>>
        found == findKey(aggregates, id)
        fresh == forEachAggr(createStore(size), fns, handles, "init", NullV, 1).store
        withKey == IF found = 0
                   THEN Append(aggregates, [key |-> id, store |-> fresh])
                   ELSE aggregates
        e == IF found = 0 THEN Len(withKey) ELSE found
        updated == forEachAggr(withKey[e].store, fns, handles, "update", row.v, 1)
    IN  [aggregates |-> [withKey EXCEPT ![e].store = updated.store],
         created |-> found = 0,
         threw |-> updated.threw]

\* The finalize loop: every store is finalized in place and gives one row,
\* the group key and the aggregators' values, each at its target's place.
finalizeStore(store, fns, handles) ==
    forEachAggr(store, fns, handles, "finalize", NullV, 1).store

finalizeEntries(aggregates, fns, handles) ==
    [e \in 1..Len(aggregates) |->
        [key |-> aggregates[e].key,
         store |-> finalizeStore(aggregates[e].store, fns, handles)]]

\* The store of the no-group case (lines 152-157): initialized, finalized.
emptyStore(fns, handles, size) ==
    finalizeStore(forEachAggr(createStore(size), fns, handles, "init", NullV, 1).store,
                  fns, handles)

\* query.columns.every((it) => it.aggregate): the columns are the visible
\* targets, which are the aggregates and, when it is in the select list,
\* the GROUP BY column; a GROUP BY column that is not in the select list
\* is a hidden target.
everyColumnAggregate(grouped, visible) == ~(grouped /\ visible)

\* An executeSelect without the no-group case.
noEmptyCase(aggregates, grouped, visible) == FALSE

\* aggregates.size == 0 && query.columns.every((it) => it.aggregate)
emptyCase(aggregates, grouped, visible) ==
    Len(aggregates) = 0 /\ everyColumnAggregate(grouped, visible)

\* The targets of the plan: k first when it is in the select list, the
\* aggregates, and k last, hidden, when GROUP BY names it and the select
\* list does not (compiler.ts 1516-1522).
targetsVisible(fns, grouped, visible) ==
    (IF grouped /\ visible THEN <<TRUE>> ELSE <<>>)
    \o [i \in 1..Len(fns) |-> TRUE]
    \o (IF grouped /\ ~visible THEN <<FALSE>> ELSE <<>>)

\* The rows pushed, one value per target.  In the no-group case the
\* targets are resolved without a row, and a column reference resolves to
\* null (getValueByDotNotation, types.ts 370-381).
groupedRows(finalized, fns, handles, size, grouped, visible) ==
    IF emptyCase(finalized, grouped, visible)
    THEN <<valuesOf(emptyStore(fns, handles, size), handles)
           \o (IF grouped THEN <<NullV>> ELSE <<>>)>>
    ELSE [e \in 1..Len(finalized) |->
             IF visible
             THEN finalized[e].key \o valuesOf(finalized[e].store, handles)
             ELSE valuesOf(finalized[e].store, handles) \o finalized[e].key]

\* The aggregates Map one resolve starts with, whatever the model still
\* holds of the Map of the resolve before: a Map that keeps it, ...
keptAggregates(previous) == previous

\* ... and line 103, const aggregates = new Map().
newAggregates(previous) == <<>>

\* Allocator.allocate: the handle is the size, and the size grows by one.
allocate(size) == [handle |-> size, size |-> size + 1]

\* aggr.forEach((it) => it.allocate(allocator)) on a new Allocator, from the
\* i-th aggregator on.
RECURSIVE allocateFrom(_, _, _)
allocateFrom(handles, size, i) ==
    IF i > Len(handles) THEN [handles |-> handles, size |-> size]
    ELSE LET a == allocate(size)
         IN  allocateFrom([handles EXCEPT ![i] = IntV(a.handle)], a.size, i + 1)

\* isGroup (query_execute.ts 92-93): the query has GROUP BY keys or a
\* target that hasAggregate.  A target fn(v) has one; a target
\* fn(v) OVER () has none, because EvalTarget.hasAggregate (nodes.ts
\* 1005-1020) looks for an aggregator below the window function, whose
\* operand is a column.
isGroup(grouped, over) == grouped \/ ~over

\* The window OVER (): no PARTITION BY, no ORDER BY, no frame.
emptyOver ==
    [type |-> "", lower |-> Unbounded, upper |-> Unbounded, exclude |-> "NONE",
     orderBy |-> 0, orderType |-> "Number"]

\* data.forEach(context => aggregates.filter(accept).forEach(update)) of
\* EvalWindow.execute, from the n-th context on: the window function has
\* no FILTER, and a throwing update ends the loop.
RECURSIVE updateFrom(_, _, _, _, _)
updateFrom(store, fn, handles, data, n) ==
    IF n > Len(data) THEN [store |-> store, threw |-> FALSE]
    ELSE LET updated == forEachAggr(store, <<fn>>, handles, "update", data[n].v, 1)
         IN  IF updated.threw THEN updated
             ELSE updateFrom(updated.store, fn, handles, data, n + 1)

\* The end of EvalWindow.execute: the aggregators are finalized unless an
\* update threw, and what is returned is this.expression.resolve(), that is
\* the aggregator's resolver called without a context when one is installed
\* (getValueByDotNotation answers null for it), and the aggregator's value
\* otherwise.
executeEnd(fn, handles, size, updated, resolver) ==
    [threw |-> updated.threw,
     handle |-> handles[1],
     size |-> size,
     value |-> IF updated.threw THEN NullV
               ELSE valuesOf(finalizeStore(updated.store, <<fn>>, handles), handles)[1],
     result |-> IF updated.threw \/ resolver THEN NullV
                ELSE valuesOf(finalizeStore(updated.store, <<fn>>, handles), handles)[1]]

\* The store of EvalWindow.execute: allocator.createStore(), initialized
\* and updated with every context of the window.
executeStore(fn, handles, size, data) ==
    updateFrom(forEachAggr(createStore(size), <<fn>>, handles, "init", NullV, 1).store,
               fn, handles, data, 1)

\* The Allocator of EvalWindow.execute has handed out its handle.
executeWith(fn, a, data, resolver) ==
    executeEnd(fn, <<IntV(a.handle)>>, a.size,
               executeStore(fn, <<IntV(a.handle)>>, a.size, data), resolver)

\* EvalWindow.execute(data, windowState) of the window function fn(v)
\* (nodes.ts 950-970): a new Allocator hands the aggregator its handle, a
\* store of the Allocator's size is made, initialized, updated with every
\* context of the window and finalized.
evalWindowExecute(fn, data, resolver) == executeWith(fn, allocate(0), data, resolver)

\* The contexts of a window of row positions.
contextsOf(window, rows) == [k \in 1..Len(window) |-> rows[window[k][1]]]

\* The calls of execute windowFunction makes for one target, one for every
\* row with the contexts of the row's window.
executeCalls(fn, rows, windows, resolver) ==
    [i \in 1..Len(rows) |->
        evalWindowExecute(fn, contextsOf(windows[i], rows), resolver)]

\* The call of execute that left the aggregator's handle and value: the
\* one that threw, which ended executeSelect, or the last one.
lastCall(calls) ==
    IF \E i \in 1..Len(calls) : calls[i].threw
    THEN calls[CHOOSE i \in 1..Len(calls) :
                   /\ calls[i].threw
                   /\ \A j \in 1..(i - 1) : ~calls[j].threw]
    ELSE calls[Len(calls)]

\* One window target of a query that is not grouped (query_execute.ts
\* 209-285), OVER () over the scanned rows.
windowTarget(fn, rows, resolver) ==
    executeCalls(fn, rows,
                 windowFunction([i \in 1..Len(rows) |-> <<i>>],
                                parseFrame(emptyOver), <<>>, FALSE).records,
                 resolver)

\* windowTargets.forEach(...), from the t-th target on, calls being the
\* calls of execute for the t-th target: the last call leaves the
\* aggregator's handle and value; after its windowFunction a target's
\* aggregator gets the resolver that reads the window's values off the
\* row, and the target's column is filled in.
RECURSIVE windowStage(_, _, _, _, _, _, _, _)
windowStep(fns, rows, handles, values, size, resolvers, columns, t, calls) ==
    IF Len(rows) = 0
    THEN windowStage(fns, rows, handles, values, size,
                     [resolvers EXCEPT ![t] = TRUE], Append(columns, <<>>), t + 1)
    ELSE IF lastCall(calls).threw
    THEN [handles |-> [handles EXCEPT ![t] = lastCall(calls).handle],
          values |-> [values EXCEPT ![t] = lastCall(calls).value],
          size |-> lastCall(calls).size,
          resolvers |-> resolvers, columns |-> columns, threw |-> TRUE]
    ELSE windowStage(fns, rows,
                     [handles EXCEPT ![t] = lastCall(calls).handle],
                     [values EXCEPT ![t] = lastCall(calls).value],
                     lastCall(calls).size,
                     [resolvers EXCEPT ![t] = TRUE],
                     Append(columns, [i \in 1..Len(rows) |-> calls[i].result]),
                     t + 1)

windowStage(fns, rows, handles, values, size, resolvers, columns, t) ==
    IF t > Len(fns)
    THEN [handles |-> handles, values |-> values, size |-> size,
          resolvers |-> resolvers, columns |-> columns, threw |-> FALSE]
    ELSE windowStep(fns, rows, handles, values, size, resolvers, columns, t,
                    windowTarget(fns[t], rows, resolvers[t]))

\* The end of executeSelect for a query of window functions: the plan's
\* nodes as the window stage left them and, unless it threw, the rows.
windowRows(stage, scanned, width) ==
    [i \in 1..Len(scanned) |-> [t \in 1..width |-> stage.columns[t][i]]]

\* The rows of the scan of a query that is not grouped (lines 163-178).
scannedRows(table, where) == SelectSeq(table, LAMBDA row : whereAccepts(where, row))

\* The plans: SELECT [k,] fn(v), ... FROM t [WHERE v > 1] [GROUP BY k] with
\* plain aggregators, and SELECT fn(v) OVER (), ... FROM t [WHERE v > 1]
\* with window functions.
AggrPlans ==
    {[aggrs |-> fns, over |-> FALSE] :
        fns \in {<<"count_star", "sum", "avg", "min", "max">>,
                 <<"count_star", "count", "avg">>,
                 <<"min", "max">>}}
    \cup {[aggrs |-> fns, over |-> TRUE] :
        fns \in {<<"count", "sum">>, <<"min", "max">>}}

TableRows == [k : KeyVals, v : OperandVals]

AggrInit ==
    /\ atable \in SeqsOf(TableRows, 0, MaxTableRows)
    /\ \E plan \in AggrPlans :
           /\ aaggrs = plan.aggrs
           /\ aover = plan.over
           /\ agrouped \in (IF plan.over THEN {FALSE} ELSE BOOLEAN)
    /\ avisible \in (IF agrouped THEN BOOLEAN ELSE {FALSE})
    /\ ahandle = [i \in 1..Len(aaggrs) |-> NullV]
    /\ avalue = [i \in 1..Len(aaggrs) |-> NullV]
    /\ aresolver = [i \in 1..Len(aaggrs) |-> FALSE]
    /\ asize = 0
    /\ aaggregates = <<>>
    /\ apos = 0
    /\ apc = "idle"
    /\ aresult = <<>>
    /\ aresolves = 0
    /\ awhere \in WhereClauses
    /\ OnlyAggr

\* EvalQuery.resolve enters executeSelect.  In a grouped query a new
\* Allocator hands out the handles 0, 1, ... and the aggregates Map is new;
\* a query that is not grouped makes neither.
BeginResolve ==
    /\ apc \in {"idle", "done", "error"}
    /\ aresolves < MaxResolves
    /\ aresolves' = aresolves + 1
    /\ IF isGroup(agrouped, aover)
       THEN /\ ahandle' = allocateFrom(ahandle, 0, 1).handles
            /\ asize' = allocateFrom(ahandle, 0, 1).size
            /\ aaggregates' = newAggregates(aaggregates)
       ELSE /\ UNCHANGED <<ahandle, asize>>
            /\ aaggregates' = <<>>
    /\ apos' = 1
    /\ apc' = "scan"
    /\ UNCHANGED <<atable, aaggrs, agrouped, avisible, aover, avalue, aresolver, aresult,
                   awhere, notAggr>>

\* One turn of the loop over query.table: the grouped path looks up the
\* row's group and updates its store, the other path keeps the row.
ScanRow ==
    /\ apc = "scan"
    /\ apos <= Len(atable)
    /\ IF isGroup(agrouped, aover)
       THEN LET step == scanRow(aaggregates, atable[apos], aaggrs, ahandle, asize, agrouped, awhere)
            IN  /\ aaggregates' = step.aggregates
                /\ avalue' = IF step.created THEN [i \in 1..Len(aaggrs) |-> NullV] ELSE avalue
                /\ apc' = IF step.threw THEN "error" ELSE "scan"
                /\ apos' = IF step.threw THEN apos ELSE apos + 1
       ELSE /\ apos' = apos + 1
            /\ UNCHANGED <<aaggregates, avalue, apc>>
    /\ UNCHANGED <<atable, aaggrs, agrouped, avisible, aover, ahandle, asize, aresolver,
                   aresult, aresolves, awhere, notAggr>>

\* The window stage is over: the plan's nodes are as it left them and,
\* unless it threw, the rows go through the tail of executeSelect.
finishWindows(stage) ==
    /\ ahandle' = stage.handles
    /\ avalue' = stage.values
    /\ asize' = stage.size
    /\ aresolver' = stage.resolvers
    /\ aresult' = IF stage.threw THEN aresult
                  ELSE executeSelectTail(
                           windowRows(stage, scannedRows(atable, awhere), Len(aaggrs)),
                           [t \in 1..Len(aaggrs) |-> TRUE], <<>>, FALSE, NullV)
    /\ apc' = IF stage.threw THEN "error" ELSE "done"
    /\ UNCHANGED aaggregates

\* The table is exhausted: the finalize loop and the no-group case of a
\* grouped query, the window stage of the other, and the tail of
\* executeSelect (no ORDER BY, DISTINCT or LIMIT), which strips a hidden k.
FinishResolve ==
    /\ apc = "scan"
    /\ apos > Len(atable)
    /\ IF isGroup(agrouped, aover)
       THEN LET finalized == finalizeEntries(aaggregates, aaggrs, ahandle)
                rows == groupedRows(finalized, aaggrs, ahandle, asize, agrouped, avisible)
            IN  /\ aaggregates' = finalized
                /\ aresult' = executeSelectTail(
                                  rows, targetsVisible(aaggrs, agrouped, avisible),
                                  <<>>, FALSE, NullV)
                /\ avalue' = IF emptyCase(finalized, agrouped, avisible)
                                 THEN valuesOf(emptyStore(aaggrs, ahandle, asize), ahandle)
                             ELSE IF Len(finalized) > 0
                                 THEN valuesOf(finalized[Len(finalized)].store, ahandle)
                             ELSE avalue
                /\ apc' = "done"
                /\ UNCHANGED <<ahandle, asize, aresolver>>
       ELSE finishWindows(windowStage(aaggrs, scannedRows(atable, awhere), ahandle,
                                      avalue, asize, aresolver, <<>>, 1))
    /\ UNCHANGED <<atable, aaggrs, agrouped, avisible, aover, apos, aresolves, awhere,
                   notAggr>>

\* Between two resolves of the plan a row is appended to its table (the
\* rows an earlier resolve returned are then no longer the table's).
InsertRow ==
    /\ apc \in {"idle", "done", "error"}
    /\ Len(atable) < MaxTableRows
    /\ \E row \in TableRows : atable' = Append(atable, row)
    /\ apc' = "idle"
    /\ UNCHANGED <<aaggrs, agrouped, avisible, aover, ahandle, avalue, aresolver, asize,
                   aaggregates, apos, aresult, aresolves, awhere, notAggr>>

AggrNext == BeginResolve \/ ScanRow \/ FinishResolve \/ InsertRow

SpecAggr == AggrInit /\ [][AggrNext]_vars

\* What the scan loop of a first resolve holds after the first n table rows.
RECURSIVE scanPrefix(_, _, _, _, _, _, _)
scanPrefix(table, n, fns, handles, size, grouped, where) ==
    IF n = 0 THEN <<>>
    ELSE scanRow(scanPrefix(table, n - 1, fns, handles, size, grouped, where),
                 table[n], fns, handles, size, grouped, where).aggregates

\* The table rows the WHERE clause lets through, and those of one key.
AcceptedRows == {i \in 1..Len(atable) : whereAccepts(awhere, atable[i])}
RowsOfKey(key) == {i \in AcceptedRows : atable[i].k = key}

\* C5: on every resolve() of the same plan the aggregator stores are
\* allocated anew and nothing of an earlier resolve is read or updated:
\* while the table is scanned the aggregates Map is what a scan of the same
\* rows from an empty Map gives, the finalized stores and the returned rows
\* are those of the current table alone, and under GROUP BY there is one
\* row per key of the table, whose count_star is the number of table rows
\* with that key (when k is not in the select list the rows hold the
\* aggregates alone); a plan of window functions returns one row per table row
\* the WHERE clause lets through, and each value in it is NULL or the
\* window function's value over the current table.
C5_FreshStoresEveryResolve ==
    /\ (apc = "scan" /\ ~aover) =>
          aaggregates = scanPrefix(atable, apos - 1, aaggrs, ahandle, asize, agrouped, awhere)
    /\ (apc = "done" /\ ~aover) =>
          LET fresh == finalizeEntries(
                           scanPrefix(atable, Len(atable), aaggrs, ahandle, asize, agrouped, awhere),
                           aaggrs, ahandle)
          IN  /\ aaggregates = fresh
              /\ aresult = executeSelectTail(
                               groupedRows(fresh, aaggrs, ahandle, asize, agrouped, avisible),
                               targetsVisible(aaggrs, agrouped, avisible),
                               <<>>, FALSE, NullV)
    /\ (apc = "done" /\ agrouped /\ avisible) =>
          /\ Len(aresult) = Cardinality({atable[i].k : i \in AcceptedRows})
          /\ \A r \in 1..Len(aresult) :
                aaggrs[1] = "count_star" =>
                    aresult[r][2] = IntV(Cardinality(RowsOfKey(aresult[r][1].v)))
    /\ (apc = "done" /\ agrouped /\ ~avisible /\ AcceptedRows # {}) =>
          /\ Len(aresult) = Cardinality({atable[i].k : i \in AcceptedRows})
          /\ \A r \in 1..Len(aresult) :
                /\ Len(aresult[r]) = Len(aaggrs)
                /\ aaggrs[1] = "count_star" =>
                       \E i \in AcceptedRows :
                           aresult[r][1] = IntV(Cardinality(RowsOfKey(atable[i].k)))
          /\ \A i \in AcceptedRows :
                aaggrs[1] = "count_star" =>
                    \E r \in 1..Len(aresult) :
                        aresult[r][1] = IntV(Cardinality(RowsOfKey(atable[i].k)))
    /\ (apc = "done" /\ aover) =>
          /\ Len(aresult) = Cardinality(AcceptedRows)
          /\ \A r \in 1..Len(aresult), t \in 1..Len(aaggrs) :
                aresult[r][t] \in
                    {NullV, evalWindowExecute(aaggrs[t], scannedRows(atable, awhere),
                                              FALSE).value}

\* A second resolve of a grouped plan is scanning: the resolve before it
\* returned group rows, so its Map held stores, and the current one has
\* read a row into a store of its own.
C5_Witness ==
    /\ aresolves >= 2
    /\ agrouped
    /\ apc = "scan"
    /\ apos >= 2
    /\ Len(aresult) >= 1
    /\ aaggregates # <<>>

\* C10: over an empty input an ungrouped aggregate query returns 0 for
\* count_star and NULL for sum, avg, min and max.
C10_EmptyInputAggregates ==
    (apc = "done" /\ ~aover /\ ~agrouped /\ Len(atable) = 0) =>
        /\ Len(aresult) = 1
        /\ \A i \in 1..Len(aaggrs) :
              /\ aaggrs[i] = "count_star" => aresult[1][i] = IntV(0)
              /\ aaggrs[i] \in {"sum", "avg", "min", "max"} => aresult[1][i] = NullV

(***************************************************************************)
(* Subqueries.  The subquery is SELECT b FROM t2; it is held either by an  *)
(* EvalConstantSubquery1D (operand of IN), by an EvalConstantSubqueryValue *)
(* (scalar operand or target), or by a SubQueryTable (FROM source or CTE). *)
(* The expression holders are resolved once for every row of the enclosing *)
(* query's table, the table holder is iterated once per execution.         *)
(***************************************************************************)
MaxOuterRows == 2
MaxInnerRows == 2
MaxExecs == 2
InnerVals == {1, 2}

MARKER == [t |-> "marker", v |-> 0]

\* this.subquery.resolve(context): the rows of SELECT b FROM t2.
subqueryResolve(inner) == [i \in 1..Len(inner) |-> <<IntV(inner[i])>>]

\* rows.map(it => it[0])
firstColumn(rows) == [i \in 1..Len(rows) |-> rows[i][1]]

\* EvalConstantSubquery1D.resolve: runs the subquery only while value is
\* still MARKER.
resolve1D(value, inner) ==
    IF value = MARKER
    THEN LET values == firstColumn(subqueryResolve(inner))
             cached == IF Len(values) > 0 THEN ListV(values) ELSE NullV
         IN  [value |-> cached, result |-> cached, ran |-> TRUE]
    ELSE [value |-> value, result |-> value, ran |-> FALSE]

\* EvalConstantSubqueryValue.resolve: runs the subquery, throws on more
\* than one row; the value field is never read or written.
resolveValue(value, inner) ==
    LET values == firstColumn(subqueryResolve(inner))
    IN  [value |-> value,
         result |-> IF Len(values) > 1 THEN ThrownV
                    ELSE IF Len(values) > 0 THEN values[1] ELSE NullV,
         ran |-> TRUE]

\* SubQueryTable.rows: runs the query only while #rows is unset.
subQueryTableRows(value, inner) ==
    IF value = NullV
    THEN LET data == ListV(subqueryResolve(inner))
         IN  [value |-> data, result |-> data, ran |-> TRUE]
    ELSE [value |-> value, result |-> value, ran |-> FALSE]

SubqInit ==
    /\ sqkind \in {"Subquery1D", "SubqueryValue", "SubQueryTable"}
    /\ sqouter \in 0..MaxOuterRows
    /\ sqinner \in SeqsOf(InnerVals, 0, MaxInnerRows)
    /\ sqvalue = IF sqkind = "SubQueryTable" THEN NullV ELSE MARKER
    /\ sqruns = 0
    /\ sqpos = 0
    /\ sqpc = "idle"
    /\ sqexecs = 0
    /\ sqout = <<>>
    /\ OnlySubq

\* The enclosing plan's resolve() is called.
BeginExecute ==
    /\ sqpc \in {"idle", "done", "error"}
    /\ sqexecs < MaxExecs
    /\ sqexecs' = sqexecs + 1
    /\ sqruns' = 0
    /\ sqpos' = 1
    /\ sqout' = <<>>
    /\ sqpc' = "run"
    /\ UNCHANGED <<sqkind, sqouter, sqinner, sqvalue, notSubq>>

\* A row of the enclosing query is evaluated: x IN (subquery).
Resolve1D ==
    /\ sqpc = "run"
    /\ sqkind = "Subquery1D"
    /\ sqpos <= sqouter
    /\ LET r == resolve1D(sqvalue, sqinner)
       IN  /\ sqvalue' = r.value
           /\ sqout' = Append(sqout, r.result)
           /\ sqruns' = sqruns + (IF r.ran THEN 1 ELSE 0)
    /\ sqpos' = sqpos + 1
    /\ UNCHANGED <<sqkind, sqouter, sqinner, sqpc, sqexecs, notSubq>>

\* A row of the enclosing query is evaluated: x = (subquery).
ResolveValue ==
    /\ sqpc = "run"
    /\ sqkind = "SubqueryValue"
    /\ sqpos <= sqouter
    /\ LET r == resolveValue(sqvalue, sqinner)
       IN  /\ sqvalue' = r.value
           /\ sqout' = Append(sqout, r.result)
           /\ sqruns' = sqruns + (IF r.ran THEN 1 ELSE 0)
           /\ sqpc' = IF r.result = ThrownV THEN "error" ELSE "run"
    /\ sqpos' = sqpos + 1
    /\ UNCHANGED <<sqkind, sqouter, sqinner, sqexecs, notSubq>>

\* The enclosing query starts to iterate its FROM source.
IterateSubQueryTable ==
    /\ sqpc = "run"
    /\ sqkind = "SubQueryTable"
    /\ sqpos = 1
    /\ LET r == subQueryTableRows(sqvalue, sqinner)
       IN  /\ sqvalue' = r.value
           /\ sqout' = Append(sqout, r.result)
           /\ sqruns' = sqruns + (IF r.ran THEN 1 ELSE 0)
    /\ sqpos' = sqpos + 1
    /\ UNCHANGED <<sqkind, sqouter, sqinner, sqpc, sqexecs, notSubq>>

\* The enclosing query has read all its rows and returns.
FinishExecute ==
    /\ sqpc = "run"
    /\ IF sqkind = "SubQueryTable" THEN sqpos > 1 ELSE sqpos > sqouter
    /\ sqpc' = "done"
    /\ UNCHANGED <<sqkind, sqouter, sqinner, sqvalue, sqruns, sqpos, sqexecs,
                   sqout, notSubq>>

\* Between two executions a row is added to the subquery's table.
InsertInner ==
    /\ sqpc \in {"idle", "done", "error"}
    /\ Len(sqinner) < MaxInnerRows
    /\ \E b \in InnerVals : sqinner' = Append(sqinner, b)
    /\ UNCHANGED <<sqkind, sqouter, sqvalue, sqruns, sqpos, sqpc, sqexecs, sqout,
                   notSubq>>

SubqNext ==
    \/ BeginExecute
    \/ Resolve1D
    \/ ResolveValue
    \/ IterateSubQueryTable
    \/ FinishExecute
    \/ InsertInner

SpecSubquery == SubqInit /\ [][SubqNext]_vars

\* C6: within one execution of the enclosing plan the subquery is run at
\* most once (on first use), and every later use in that execution gets
\* the cached result.
C6_MaterializedOncePerExecution == sqruns <= 1

(***************************************************************************)
(* EvalInsert.resolve (nodes.ts 270-322) on a table created by             *)
(*   CREATE TABLE t (a INTEGER [NOT NULL], b INTEGER [CHECK (b > 1)],      *)
(*                   [CHECK (a <= b)], [UNIQUE (a)])                       *)
(* The parser keeps every declaration (parser.ts 719, 731-762): the        *)
(* column options and, in node.constraints, a CheckConstraint or a         *)
(* UniqueConstraint node.  The constraints of the table are the ones       *)
(* EvalCreateTable builds from them: one per NOT NULL column, one per      *)
(* column CHECK, one per CheckConstraint; its loop over node.constraints   *)
(* has no branch for a UniqueConstraint, a PrimaryKeyConstraint or a       *)
(* ForeignKeyConstraint, which leave nothing in table.constraints.         *)
(***************************************************************************)
MaxInsertRows == 2
MaxSubmitted == 3

StrV == [t |-> "str", v |-> 0]

\* What a CREATE TABLE statement can declare on t.
Declarations == [notNullA : BOOLEAN, checkB : BOOLEAN, checkAB : BOOLEAN,
                 uniqueA : BOOLEAN]

\* EvalCreateTable's constructor: the constraints, columns first.  Only a
\* constraint that is a CheckConstraint is compiled (line 1364), so the
\* declared UNIQUE (a) adds no entry.
tableConstraints(notNullA, checkB, checkAB, uniqueA) ==
    (IF notNullA
        THEN <<[name |-> "not-null", column |-> "a", expr |-> "a IS NOT NULL"]>>
        ELSE <<>>)
    \o (IF checkB
        THEN <<[name |-> "t_b_check", column |-> "b", expr |-> "b > 1"]>>
        ELSE <<>>)
    \o (IF checkAB
        THEN <<[name |-> "t_a_b_check", column |-> "", expr |-> "a <= b"]>>
        ELSE <<>>)

\* EvalBinaryOp.resolve: null when an operand is null.
binaryOpResolve(left, right, result) ==
    IF isNull(left) \/ isNull(right) THEN NullV ELSE BoolV(result)

\* constraint.expr.resolve(row)
constraintResolve(expr, row) ==
    CASE expr = "a IS NOT NULL" -> BoolV(~isNull(row.a))
      [] expr = "b > 1" -> binaryOpResolve(row.b, IntV(1), row.b.v > 1)
      [] OTHER -> binaryOpResolve(row.a, row.b, row.a.v <= row.b.v)

\* Lines 281-296: a value that is neither null nor of the column's type is
\* cast; for an INTEGER column a string has no cast and the INSERT throws.
coercible(row) == row.a.t # "str" /\ row.b.t # "str"

\* Lines 299-311: the row passes unless some constraint of the table
\* resolves to false or to null.
passesConstraints(row, constraints) ==
    \A c \in 1..Len(constraints) :
        LET value == constraintResolve(constraints[c].expr, row)
        IN  ~(value = BoolV(FALSE) \/ isNull(value))

\* The first constraint, in the table's order, that fails on the row.
failedConstraint(row, constraints) ==
    LET c == CHOOSE c \in 1..Len(constraints) :
                 /\ ~passesConstraints(row, <<constraints[c]>>)
                 /\ \A d \in 1..(c - 1) : passesConstraints(row, <<constraints[d]>>)
    IN  constraints[c]

\* this.values.forEach(item => ...), from the i-th item on: an item that
\* throws ends the statement; the rows pushed before it stay in data.
RECURSIVE insertFrom(_, _, _, _)
insertFrom(data, values, constraints, i) ==
    IF i > Len(values) THEN [data |-> data, error |-> ""]
    ELSE IF ~coercible(values[i])
        THEN [data |-> data, error |-> "invalid input syntax"]
    ELSE IF ~passesConstraints(values[i], constraints)
        THEN [data |-> data,
              error |-> IF failedConstraint(values[i], constraints).name = "not-null"
                        THEN "not-null" ELSE "check"]
    ELSE insertFrom(Append(data, values[i]), values, constraints, i + 1)

evalInsertResolve(data, values, constraints) ==
    insertFrom(data, values, constraints, 1)

InsertRows == [a : {NullV, IntV(1), IntV(2), StrV}, b : {NullV, IntV(1), IntV(2)}]

InsertInit ==
    /\ \E node \in Declarations :
           /\ ideclared = node
           /\ iconstraints = tableConstraints(node.notNullA, node.checkB,
                                              node.checkAB, node.uniqueA)
    /\ idata = <<>>
    /\ ibefore = <<>>
    /\ ivalues = <<>>
    /\ ipc = "ready"
    /\ ierror = ""
    /\ ireturned = <<>>
    /\ isubmitted = 0
    /\ OnlyInsert

\* context.execute("INSERT INTO t (a, b) VALUES ...")
Insert ==
    /\ \E values \in SeqsOf(InsertRows, 1, Min(MaxInsertRows, MaxSubmitted - isubmitted)) :
           /\ isubmitted' = isubmitted + Len(values)
           /\ LET r == evalInsertResolve(idata, values, iconstraints)
              IN  /\ idata' = r.data
                  /\ ierror' = r.error
                  /\ ipc' = IF r.error = "" THEN "ok" ELSE "error"
                  /\ ireturned' = IF r.error = "" THEN values ELSE <<>>
           /\ ivalues' = values
    /\ ibefore' = idata
    /\ UNCHANGED <<ideclared, iconstraints, notInsert>>

InsertNext == Insert

SpecInsert == InsertInit /\ [][InsertNext]_vars

\* What the constraints declared on the table ask of a row.
Satisfies(row) ==
    /\ row.a.t # "str" /\ row.b.t # "str"
    /\ ideclared.notNullA => row.a # NullV
    /\ ideclared.checkB => (row.b # NullV /\ row.b.v > 1)
    /\ ideclared.checkAB =>
           (row.a # NullV /\ row.b # NullV /\ row.a.v <= row.b.v)

\* What the declared UNIQUE (a) asks of a row about to join the rows of
\* data: no row already there has the same non-null a.
SatisfiesUnique(row, data) ==
    ideclared.uniqueA =>
        \A i \in 1..Len(data) : isNull(row.a) \/ data[i].a # row.a

\* C3: INSERT evaluates every column-level and table-level constraint
\* declared on the table on each row before the row is appended: every row
\* in the table satisfies the NOT NULL and CHECK constraints and, under a
\* declared UNIQUE (a), no row repeats the a of a row before it; an INSERT
\* that returned appended all its rows, and an INSERT that raised stopped
\* at a row that violates a constraint, which was not appended (nor was any
\* row after it).
C3_ConstraintsBeforeAppend ==
    /\ \A i \in 1..Len(idata) :
           /\ Satisfies(idata[i])
           /\ SatisfiesUnique(idata[i], SubSeq(idata, 1, i - 1))
    /\ ipc = "ok" => idata = ibefore \o ivalues
    /\ ipc = "error" =>
          \E bad \in 1..Len(ivalues) :
               /\ ~(/\ Satisfies(ivalues[bad])
                    /\ SatisfiesUnique(ivalues[bad],
                           ibefore \o SubSeq(ivalues, 1, bad - 1)))
               /\ \A i \in 1..(bad - 1) : Satisfies(ivalues[i])
               /\ idata = ibefore \o SubSeq(ivalues, 1, bad - 1)

\* The same without the declared UNIQUE: the NOT NULL and CHECK constraints
\* are evaluated on each row before it is appended.
C3_ChecksBeforeAppend ==
    /\ \A i \in 1..Len(idata) : Satisfies(idata[i])
    /\ ipc = "ok" => idata = ibefore \o ivalues
    /\ ipc = "error" =>
          \E bad \in 1..Len(ivalues) :
               /\ ~Satisfies(ivalues[bad])
               /\ \A i \in 1..(bad - 1) : Satisfies(ivalues[i])
               /\ idata = ibefore \o SubSeq(ivalues, 1, bad - 1)

\* An INSERT into a table declared UNIQUE (a) returned although its row
\* repeats the a of a row already in the table.
DuplicateAppended ==
    /\ ideclared.uniqueA
    /\ ipc = "ok"
    /\ \E i \in 1..Len(ibefore) :
           ~isNull(ibefore[i].a) /\ ibefore[i].a = ivalues[1].a

(***************************************************************************)
(* The catalog and blocks of statements.  Context.tables maps a name to a  *)
(* table; a table is known here by the data array it reads and writes      *)
(* (Table.props.data), which Table.copy shares with the copy.  A block is  *)
(* compiled in the live context when one of its statements is a CREATE     *)
(* TABLE or an INSERT and in a copy of the context otherwise; each of its  *)
(* statements is compiled and then resolved before the next one is looked  *)
(* at, and an exception ends the block.  A row of a data array is an       *)
(* object keyed by the column's name, as INSERT and the Context's own      *)
(* tables have them, an object keyed by the column's Symbol, as            *)
(* SubQueryTable.rows makes them, or a positional array, as the result     *)
(* rows of a query are; its one cell is v.  A table reads its rows through *)
(* its columns: EvalColumns, or the AttributeGetters of a subquery, which  *)
(* Table.copy hands on to an alias.  The statements are CREATE TABLE and INSERT on the names of  *)
(* Names, and queries SELECT * FROM src [AS alias], alone or under         *)
(* WITH c AS (SELECT * FROM with).                                         *)
(***************************************************************************)
MaxStatements == 3
MaxBlocks == 2

Names == {"t1", "t2"}
Aliases == Names \cup {"none"}
CteNames == {"c"}
CatalogNames == Names \cup CteNames

UndefinedV == [t |-> "undefined", v |-> 0]
ObjectRow(v) == [shape |-> "object", v |-> v]
SymbolRow(v) == [shape |-> "symbol", v |-> v]
ArrayRow(v) == [shape |-> "array", v |-> v]

\* EvalColumn.resolve, getValueByDotNotation(row, name): the property of that
\* name, else the property whose Symbol has that description; a positional
\* row has neither.
columnResolve(row) == IF row.shape = "array" THEN UndefinedV ELSE row.v

\* The getter of a subquery's column, context[target.name] ?? context[i]: the
\* property under the target's Symbol, else the element at the position; a
\* row keyed by name has neither.
getterResolve(row) == IF row.shape = "object" THEN UndefinedV ELSE row.v

\* The loop of executeSelect over the rows of a table, for SELECT *: each
\* row read through the table's columns.
selectRows(columns, rows) ==
    [i \in 1..Len(rows) |-> IF columns = "getter" THEN getterResolve(rows[i])
                                                   ELSE columnResolve(rows[i])]

\* The result rows of SELECT * over a table: positional arrays.
queryRows(columns, rows) ==
    [i \in 1..Len(rows) |-> ArrayRow(selectRows(columns, rows)[i])]

\* SubQueryTable.rows: the result rows made into objects keyed by the
\* columns' Symbols.
subQueryRows(columns, rows) ==
    [i \in 1..Len(rows) |-> SymbolRow(selectRows(columns, rows)[i])]

\* A table: its data array and its columns, EvalColumns ("column") or the
\* AttributeGetters of EvalQuery.subQueryColumns ("getter").
NoTable == [kind |-> "none", data |-> 0, columns |-> "none"]
MkTable(kind, data) ==
    [kind |-> kind, data |-> data,
     columns |-> IF kind = "cte" THEN "getter" ELSE "column"]
NoCatalog == [n \in CatalogNames |-> NoTable]
NoStatement ==
    [kind |-> "none", pos |-> 0, name |-> "none", ifNotExists |-> FALSE,
     existed |-> FALSE, outcome |-> "none", saw |-> 0, rows |-> <<>>]

\* Context.withTables: the name now maps to this table, whatever it mapped to.
withTables(tables, name, table) == [tables EXCEPT ![name] = table]

\* Context.copy: a new map holding the same tables.
copy(tables) == [n \in CatalogNames |-> tables[n]]

\* Table.copy under another name: a new table on the same data array.
tableCopy(table) == [kind |-> "alias", data |-> table.data, columns |-> table.columns]

\* Compiler.compileFrom for FROM src [AS alias]: the relation must exist, and an
\* alias is registered in the context's tables.
compileFrom(tables, src, alias) ==
    IF tables[src] = NoTable
        THEN [error |-> "missing", tables |-> tables, table |-> NoTable]
        ELSE [error |-> "",
              tables |-> IF alias = "none" THEN tables
                         ELSE withTables(tables, alias, tableCopy(tables[src])),
              table |-> tables[src]]

\* Compiler.compileQuery for [WITH c AS (SELECT * FROM with)] SELECT * FROM
\* src [AS alias], followed by the query's resolve: the common table
\* expression is compiled (its relation must exist) and registered in the
\* context's tables as a SubQueryTable before the FROM clause is compiled; its
\* rows are made when the query reads it.
compileQuery(tables, data, with, src, alias) ==
    IF with = "none"
        THEN [data |-> data] @@ compileFrom(tables, src, alias)
    ELSE IF tables[with] = NoTable
        THEN [error |-> "missing", tables |-> tables, table |-> NoTable, data |-> data]
    ELSE [data |-> Append(data, subQueryRows(tables[with].columns,
                                             data[tables[with].data]))]
         @@ compileFrom(withTables(tables, "c", MkTable("cte", Len(data) + 1)),
                        src, alias)

\* Compiler.compileCreateTable followed by EvalCreateTable.resolve for
\* CREATE TABLE [IF NOT EXISTS] name [AS SELECT * FROM src [AS alias]].
\* The query, when there is one, is compiled before the name is looked up,
\* and its result rows become the table's data.
createTable(tables, data, name, ifNotExists, query) ==
    LET from == IF query.src = "none"
                    THEN [error |-> "", tables |-> tables, table |-> NoTable]
                    ELSE compileFrom(tables, query.src, query.alias)
    IN  IF from.error # ""
            THEN [outcome |-> "missing", tables |-> tables, data |-> data]
        ELSE IF from.tables[name] # NoTable
            THEN [outcome |-> IF ifNotExists THEN "constant" ELSE "exists",
                  tables |-> from.tables, data |-> data]
        ELSE [outcome |-> "ok",
              tables |-> withTables(from.tables, name,
                                    MkTable("table", Len(data) + 1)),
              data |-> Append(data, IF query.src = "none" THEN <<>>
                                    ELSE queryRows(from.table.columns,
                                                   data[from.table.data]))]

Queries == [src : Names \cup {"none"}, alias : Aliases]
CreateQueries == {q \in Queries : q.src = "none" => q.alias = "none"}

compileTables == IF clive THEN ctables ELSE cscratch

CatalogInit ==
    /\ \/ ctables = NoCatalog /\ cdata = <<>>
       \/ /\ ctables = withTables(NoCatalog, "t2", MkTable("base", 1))
          /\ cdata = << <<ObjectRow(IntV(2))>> >>
    /\ cscratch = NoCatalog
    /\ cstatus = "idle"
    /\ clive = FALSE
    /\ cpc = 0
    /\ cmodified = FALSE
    /\ cblocks = 0
    /\ ccreated = [n \in CatalogNames |-> 0]
    /\ cbefore = ctables
    /\ clast = NoStatement
    /\ OnlyCatalog

\* Context.compile of a block: the live context or a copy of it.
StartBlock ==
    /\ cstatus \in {"idle", "error"}
    /\ cblocks < MaxBlocks
    /\ \E live \in BOOLEAN :
           /\ clive' = live
           /\ cscratch' = IF live THEN NoCatalog ELSE copy(ctables)
    /\ cstatus' = "running"
    /\ cpc' = 0
    /\ cmodified' = FALSE
    /\ cblocks' = cblocks + 1
    /\ ccreated' = [n \in CatalogNames |-> 0]
    /\ cbefore' = ctables
    /\ clast' = NoStatement
    /\ UNCHANGED <<ctables, cdata, notCatalog>>

\* One turn of the loop of EvalStatements.resolve on a CREATE TABLE statement.
CreateTable ==
    /\ cstatus = "running" /\ clive /\ cpc < MaxStatements
    /\ \E name \in Names, ifNotExists \in BOOLEAN, query \in CreateQueries :
           LET r == createTable(ctables, cdata, name, ifNotExists, query)
           IN  /\ ctables' = r.tables
               /\ cdata' = r.data
               /\ cstatus' = IF r.outcome \in {"ok", "constant"} THEN "running" ELSE "error"
               /\ ccreated' = IF r.outcome = "ok"
                                  THEN [ccreated EXCEPT ![name] = r.tables[name].data]
                                  ELSE ccreated
               /\ clast' = [kind |-> "create", pos |-> cpc + 1, name |-> name,
                            ifNotExists |-> ifNotExists,
                            existed |-> ctables[name] # NoTable,
                            outcome |-> r.outcome, saw |-> 0, rows |-> <<>>]
    /\ cpc' = cpc + 1
    /\ cmodified' = TRUE
    /\ cbefore' = ctables
    /\ UNCHANGED <<cscratch, clive, cblocks, notCatalog>>

\* One turn of the loop on INSERT INTO name VALUES (1).
InsertInto ==
    /\ cstatus = "running" /\ clive /\ cpc < MaxStatements
    /\ \E name \in Names :
           LET table == ctables[name]
           IN  /\ cdata' = IF table = NoTable THEN cdata
                           ELSE [cdata EXCEPT ![table.data] = Append(@, ObjectRow(IntV(1)))]
               /\ cstatus' = IF table = NoTable THEN "error" ELSE "running"
               /\ clast' = [kind |-> "insert", pos |-> cpc + 1, name |-> name,
                            ifNotExists |-> FALSE, existed |-> table # NoTable,
                            outcome |-> IF table = NoTable THEN "missing" ELSE "ok",
                            saw |-> table.data, rows |-> <<>>]
    /\ cpc' = cpc + 1
    /\ cmodified' = TRUE
    /\ cbefore' = ctables
    /\ UNCHANGED <<ctables, cscratch, clive, cblocks, ccreated, notCatalog>>

\* The queries of a block: a common table expression is the relation the
\* query reads.
QueryStatements ==
    [with : {"none"}, src : CatalogNames, alias : Aliases]
    \cup [with : Names, src : CteNames, alias : {"none"}]

\* One turn of the loop on a query.  A block in the live context has a
\* CREATE TABLE or an INSERT among its statements.
SelectFrom ==
    /\ cstatus = "running" /\ cpc < MaxStatements
    /\ clive => (cmodified \/ cpc + 1 < MaxStatements)
    /\ \E q \in QueryStatements :
           LET src == q.src
               r == compileQuery(compileTables, cdata, q.with, q.src, q.alias)
           IN  /\ ctables' = IF clive THEN r.tables ELSE ctables
               /\ cdata' = r.data
               /\ cscratch' = IF clive THEN cscratch ELSE r.tables
               /\ cstatus' = IF r.error = "" THEN "running" ELSE "error"
               /\ clast' = [kind |-> "select", pos |-> cpc + 1, name |-> src,
                            ifNotExists |-> FALSE, existed |-> r.error = "",
                            outcome |-> IF r.error = "" THEN "ok" ELSE "missing",
                            saw |-> r.table.data,
                            rows |-> IF r.error = ""
                                     THEN selectRows(r.table.columns,
                                                     r.data[r.table.data])
                                     ELSE <<>>]
    /\ cpc' = cpc + 1
    /\ cbefore' = ctables
    /\ UNCHANGED <<clive, cmodified, cblocks, ccreated, notCatalog>>

\* The loop of EvalStatements.resolve has run out of statements.
EndBlock ==
    /\ cstatus = "running" /\ cpc >= 1
    /\ clive => cmodified
    /\ cstatus' = "idle"
    /\ UNCHANGED <<ctables, cscratch, cdata, clive, cpc, cmodified, cblocks,
                   ccreated, cbefore, clast, notCatalog>>

CatalogNext == StartBlock \/ CreateTable \/ InsertInto \/ SelectFrom \/ EndBlock

SpecCatalog == CatalogInit /\ [][CatalogNext]_vars

(***************************************************************************)
(* C2: within a Statements block the sub-statements are compiled and       *)
(* executed strictly in textual order, and a table created by an earlier   *)
(* CREATE TABLE of the block is visible to every later statement of the    *)
(* same block: a later SELECT or INSERT naming it succeeds and reads or    *)
(* writes the created table's data.                                        *)
(***************************************************************************)
C2_CreatedTableVisibleLater ==
    (cstatus \in {"running", "error"} /\ clast.kind \in {"select", "insert"}
        /\ ccreated[clast.name] # 0)
    => /\ clast.pos = cpc
       /\ clast.outcome = "ok"
       /\ clast.saw = ccreated[clast.name]
       /\ clast.kind = "select" =>
              clast.rows = [i \in 1..Len(cdata[clast.saw]) |-> cdata[clast.saw][i].v]

(***************************************************************************)
(* C4: executing CREATE TABLE for a name that already exists in the        *)
(* catalog never alters the existing table: with IF NOT EXISTS the         *)
(* statement is a no-op that leaves every catalog entry and every table's  *)
(* rows as they were, and without IF NOT EXISTS the statement raises       *)
(* relation "x" already exists.  A failure of the statement's own query to *)
(* compile is left aside.                                                  *)
(***************************************************************************)
C4_CreateExistingLeavesCatalog ==
    (clast.kind = "create" /\ clast.existed /\ clast.outcome # "missing")
    => /\ ctables[clast.name].data = cbefore[clast.name].data
       /\ IF clast.ifNotExists
              THEN /\ clast.outcome = "constant"
                   /\ \A n \in CatalogNames : ctables[n].data = cbefore[n].data
              ELSE clast.outcome = "exists"

(***************************************************************************)
(* One JOIN as Compiler.compileJoins compiles it.  The left table is named *)
(* l and has the column x, the joined table is named r and has the column  *)
(* y.  The dataLoader closure keeps results, matchedRightRows and          *)
(* matchedLeftRows from one run to the next; a row in those sets is known  *)
(* by its position in its table.                                           *)
(***************************************************************************)
MaxLeft == 2
MaxRight == 2
MaxInvoke == 2

tableName == "l"
rightKey == "r"
JoinVals == {NullV, IntV(1), IntV(2)}

AttributeExpression(operand, name) ==
    [node |-> "Attribute", op |-> "", args |-> <<>>, operand |-> operand,
     name |-> name, value |-> NullV]
ColumnExpression(column) ==
    [node |-> "Column", op |-> "", args |-> <<>>, operand |-> "",
     name |-> column, value |-> NullV]
LiteralExpression(value) ==
    [node |-> "Literal", op |-> "", args |-> <<>>, operand |-> "",
     name |-> "", value |-> value]
PlaceHolderExpression(value) ==
    [node |-> "PlaceHolder", op |-> "", args |-> <<>>, operand |-> "",
     name |-> "", value |-> value]
BooleanExpression(op, args) ==
    [node |-> "Boolean", op |-> op, args |-> args, operand |-> "",
     name |-> "", value |-> NullV]

\* Compiler.isEquiJoin: walks the condition and collects its column
\* references; the operator of a BooleanExpression is not looked at.
RECURSIVE isEquiJoin(_, _)
RECURSIVE isEquiJoinArgs(_, _, _)
isEquiJoinArgs(args, i, columns) ==
    IF i > Len(args) THEN [ok |-> TRUE, columns |-> columns]
    ELSE LET r == isEquiJoin(args[i], columns)
         IN  IF ~r.ok THEN r ELSE isEquiJoinArgs(args, i + 1, r.columns)

isEquiJoin(expr, columns) ==
    CASE expr.node = "Boolean" -> isEquiJoinArgs(expr.args, 1, columns)
      [] expr.node = "Attribute" -> [ok |-> TRUE, columns |-> Append(columns, expr)]
      [] expr.node = "Column" -> [ok |-> TRUE, columns |-> Append(columns, expr)]
      [] expr.node = "Literal" -> [ok |-> TRUE, columns |-> columns]
      [] OTHER -> [ok |-> FALSE, columns |-> columns]

\* Lines 586-602: of the collected references the qualified ones are sorted
\* into those of the joined table and the others.
joinColumns(condition) ==
    LET found == isEquiJoin(condition, <<>>)
        columns == IF found.ok THEN found.columns ELSE <<>>
    IN  [left |-> SelectSeq(columns, LAMBDA c :
                      c.node = "Attribute" /\ c.operand # rightKey),
         right |-> SelectSeq(columns, LAMBDA c :
                      c.node = "Attribute" /\ c.operand = rightKey)]

\* Line 604: the hash dataLoader is compiled when as many left as right
\* column references were found, the nested-loop dataLoader otherwise.
usesHash(condition) ==
    Len(joinColumns(condition).left) = Len(joinColumns(condition).right)

\* compileExpression of the condition followed by resolve(context): l.x reads
\* the left row's column from the context itself, r.y reads it from the
\* joined row stored under rightKey.
RECURSIVE resolve(_, _)
resolve(expr, context) ==
    CASE expr.node = "Attribute" ->
             IF expr.operand = tableName THEN context[expr.name]
             ELSE context[expr.operand][expr.name]
      [] expr.node = "Column" -> context[expr.name]
      [] expr.node = "Boolean" ->
             LET args == [i \in 1..Len(expr.args) |-> resolve(expr.args[i], context)]
             IN  CASE expr.op = "AND" -> EvalAndResolve(args)
                   [] expr.op = "OR" -> EvalOrResolve(args)
                   [] expr.op = "=" -> binaryOpResolve(args[1], args[2], args[1].v = args[2].v)
                   [] OTHER -> binaryOpResolve(args[1], args[2], args[1].v < args[2].v)
      [] OTHER -> expr.value

\* Array.prototype.join(":") of the resolved key columns; null joins as the
\* empty string.
RECURSIVE joinKey(_, _)
joinKey(values, i) ==
    IF i > Len(values) THEN ""
    ELSE (IF isNull(values[i]) THEN "" ELSE ToString(values[i].v))
         \o (IF i < Len(values) THEN ":" ELSE "")
         \o joinKey(values, i + 1)

\* Lines 609-616 and 622-624: the key of a right row and of a left row.
rightRowKey(rightColumns, rightRow) ==
    joinKey([i \in 1..Len(rightColumns) |->
                resolve(rightColumns[i], [r |-> rightRow])], 1)
leftRowKey(leftColumns, leftRow) ==
    joinKey([i \in 1..Len(leftColumns) |-> resolve(leftColumns[i], leftRow)], 1)

\* rightMap.get(key) || []: the right rows of that key, in table order.
rightMapGet(rightColumns, right, key) ==
    SelectSeq([j \in 1..Len(right) |-> j],
              LAMBDA j : rightRowKey(rightColumns, right[j]) = key)

\* The right rows the condition is tried on for one left row.
matchesOf(path, columns, left, right, i) ==
    IF path = "hash"
        THEN rightMapGet(columns.right, right, leftRowKey(columns.left, left[i]))
        ELSE [j \in 1..Len(right) |-> j]

\* The context the condition is resolved in, and the rows pushed to results.
joinData(leftRow, rightRow) == [x |-> leftRow.x, l |-> leftRow, r |-> rightRow]
joinedRow(leftRow, rightRow) == [l |-> <<leftRow>>, r |-> <<rightRow>>]
leftOnlyRow(leftRow) == [l |-> <<leftRow>>, r |-> <<>>]
rightOnlyRow(rightRow) == [l |-> <<>>, r |-> <<rightRow>>]

\* for (const rightRow of matches) { if (expr.resolve(data)) ... }
RECURSIVE matchLoop(_, _, _, _, _, _, _, _)
matchLoop(expr, type, left, right, i, matches, k, st) ==
    IF k > Len(matches) THEN st
    ELSE LET j == matches[k]
             hit == truthy(resolve(expr, joinData(left[i], right[j])))
             pushed == [st EXCEPT !.results = Append(@, joinedRow(left[i], right[j]))]
         IN  matchLoop(expr, type, left, right, i, matches, k + 1,
                 IF ~hit THEN st
                 ELSE IF type = "CROSS" THEN pushed
                 ELSE [pushed EXCEPT !.matched = TRUE,
                                     !.matchedRightRows = @ \cup {j},
                                     !.matchedLeftRows = @ \cup {i}])

\* for (const rightRow of right) { if (!matchedRightRows.has(rightRow)) ... }
RECURSIVE unmatchedRightLoop(_, _, _)
unmatchedRightLoop(right, j, st) ==
    IF j > Len(right) THEN st
    ELSE unmatchedRightLoop(right, j + 1,
             IF j \in st.matchedRightRows THEN st
             ELSE [st EXCEPT !.results = Append(@, rightOnlyRow(right[j]))])

\* for (const leftRow of left) { ... } of either dataLoader.
RECURSIVE leftLoop(_, _, _, _, _, _, _, _)
leftLoop(path, expr, type, columns, left, right, i, st) ==
    IF i > Len(left) THEN st
    ELSE LET s1 == matchLoop(expr, type, left, right, i,
                             matchesOf(path, columns, left, right, i), 1,
                             [st EXCEPT !.matched = FALSE])
             s2 == IF type # "CROSS" /\ ((~s1.matched /\ type = "LEFT") \/ type = "FULL")
                       THEN [s1 EXCEPT !.results = Append(@, leftOnlyRow(left[i]))]
                       ELSE s1
             s3 == IF type \in {"RIGHT", "FULL"}
                       THEN unmatchedRightLoop(right, 1, s2)
                       ELSE s2
         IN  leftLoop(path, expr, type, columns, left, right, i + 1, s3)

\* One run of a dataLoader on the closure's state.  The two dataLoaders are
\* the same text but for the right rows tried for a left row.
dataLoader(path, expr, type, left, right, closure) ==
    LET st == leftLoop(path, expr, type, joinColumns(expr), left, right, 1,
                       [results |-> closure.results,
                        matchedRightRows |-> closure.matchedRightRows,
                        matchedLeftRows |-> closure.matchedLeftRows,
                        matched |-> FALSE])
        unmatchedLeft == SelectSeq([i \in 1..Len(left) |-> i],
                                   LAMBDA i : i \notin st.matchedLeftRows)
    IN  [results |-> st.results,
         matchedRightRows |-> st.matchedRightRows,
         matchedLeftRows |-> st.matchedLeftRows,
         out |-> IF type = "ANTI"
                     THEN [k \in 1..Len(unmatchedLeft) |-> leftOnlyRow(left[unmatchedLeft[k]])]
                     ELSE st.results]

hashDataLoader(expr, type, left, right, closure) ==
    dataLoader("hash", expr, type, left, right, closure)
nestedDataLoader(expr, type, left, right, closure) ==
    dataLoader("nested", expr, type, left, right, closure)

lx == AttributeExpression("l", "x")
ry == AttributeExpression("r", "y")
OnConditions ==
    { BooleanExpression("=", <<lx, ry>>),
      BooleanExpression("<", <<lx, ry>>),
      BooleanExpression("OR", <<BooleanExpression("=", <<lx, ry>>),
                                BooleanExpression("<", <<lx, ry>>)>>),
      BooleanExpression("AND", <<BooleanExpression("=", <<lx, LiteralExpression(IntV(1))>>),
                                 BooleanExpression("=", <<ry, LiteralExpression(IntV(2))>>)>>),
      BooleanExpression("AND", <<BooleanExpression("=", <<lx, ry>>),
                                 BooleanExpression("=", <<lx, LiteralExpression(IntV(1))>>)>>),
      BooleanExpression("AND", <<BooleanExpression("=", <<lx, ry>>),
                                 BooleanExpression("=", <<lx, PlaceHolderExpression(IntV(1))>>)>>),
      BooleanExpression("=", <<ColumnExpression("x"), ry>>),
      LiteralExpression(BoolV(TRUE)) }
JoinTypes == {"INNER", "LEFT", "RIGHT", "FULL", "CROSS", "ANTI"}

closureOf(results, matchedRightRows, matchedLeftRows) ==
    [results |-> results, matchedRightRows |-> matchedRightRows,
     matchedLeftRows |-> matchedLeftRows]

JoinInit ==
    /\ jleft \in SeqsOf([x : JoinVals], 0, MaxLeft)
    /\ jright \in SeqsOf([y : JoinVals], 0, MaxRight)
    /\ jcond \in OnConditions
    /\ jtype \in JoinTypes
    /\ jresults = <<>>
    /\ jmatchedRightRows = {}
    /\ jmatchedLeftRows = {}
    /\ jcalls = 0
    /\ jprev = closureOf(<<>>, {}, {})
    /\ jout = <<>>
    /\ jpath = "none"
    /\ OnlyJoin

RunLoader(path, r) ==
    /\ jpath' = path
    /\ jresults' = r.results
    /\ jmatchedRightRows' = r.matchedRightRows
    /\ jmatchedLeftRows' = r.matchedLeftRows
    /\ jout' = r.out
    /\ jprev' = closureOf(jresults, jmatchedRightRows, jmatchedLeftRows)
    /\ jcalls' = jcalls + 1
    /\ UNCHANGED <<jleft, jright, jcond, jtype, notJoin>>

\* Table.prepare calls props.data(): the dataLoader of lines 605-680.
HashDataLoader ==
    /\ jtype # "off" /\ jcalls < MaxInvoke
    /\ usesHash(jcond)
    /\ RunLoader("hash", hashDataLoader(jcond, jtype, jleft, jright,
                     closureOf(jresults, jmatchedRightRows, jmatchedLeftRows)))

\* Table.prepare calls props.data(): the dataLoader of lines 685-741.
NestedDataLoader ==
    /\ jtype # "off" /\ jcalls < MaxInvoke
    /\ ~usesHash(jcond)
    /\ RunLoader("nested", nestedDataLoader(jcond, jtype, jleft, jright,
                     closureOf(jresults, jmatchedRightRows, jmatchedLeftRows)))

JoinNext == HashDataLoader \/ NestedDataLoader

SpecJoin == JoinInit /\ [][JoinNext]_vars

Count(rows, row) == Cardinality({i \in DOMAIN rows : rows[i] = row})
SameBag(a, b) ==
    \A row \in {a[i] : i \in DOMAIN a} \cup {b[i] : i \in DOMAIN b} :
        Count(a, row) = Count(b, row)

(***************************************************************************)
(* C1: for the same left rows, the same right rows and the same ON         *)
(* condition, a join evaluated through the hash path returns the same bag  *)
(* of rows as the nested loop run on the same inputs from the same closure *)
(* state.                                                                  *)
(***************************************************************************)
C1_HashEqualsNestedLoop ==
    (jcalls >= 1 /\ usesHash(jcond))
    => SameBag(jout, nestedDataLoader(jcond, jtype, jleft, jright, jprev).out)

(***************************************************************************)
(* C11: a grouped query whose targets are all aggregates emits exactly one *)
(* row, the initialized-then-finalized empty aggregate, whenever no input  *)
(* row reaches the grouping stage (the table is empty or the WHERE clause  *)
(* rejects every row).                                                     *)
(***************************************************************************)
C11_OneRowWhenNoRowIsGrouped ==
    (apc = "done" /\ ~aover /\ everyColumnAggregate(agrouped, avisible)
     /\ AcceptedRows = {})
    => aresult = <<valuesOf(emptyStore(aaggrs, ahandle, asize), ahandle)>>

\* The WHERE clause has rejected every row of a table that is not empty.
C11_Witness ==
    /\ apc = "done"
    /\ ~aover
    /\ ~agrouped
    /\ awhere = "v > 1"
    /\ Len(atable) >= 1
    /\ AcceptedRows = {}
    /\ Len(aresult) = 1

(***************************************************************************)
(* compileTargets validates the frame of an OVER clause: a RANGE frame     *)
(* against the window's ORDER BY (compiler.ts 412-448).                    *)
(***************************************************************************)
\* compiler.ts 412-448: the CompilationError of the window, "" when it has
\* none.
rangeValidation(frame, decl) ==
    IF /\ decl.orderBy > 0
       /\ frame.type = "RANGE"
       /\ (frame.preceding # Infinity
             \/ (frame.following > 0 /\ frame.following # Infinity))
       /\ decl.orderBy # 1
        THEN "requires exactly one ORDER BY column"
    ELSE IF /\ decl.orderBy > 0
            /\ frame.type = "RANGE"
            /\ (frame.preceding # Infinity
                  \/ (frame.following > 0 /\ frame.following # Infinity))
            /\ decl.orderType = "String"
        THEN "is not supported for column type text"
    ELSE IF frame.type = "RANGE" /\ decl.orderBy # 1
        THEN "requires exactly one ORDER BY column"
    ELSE ""

NoFrame == [type |-> "", preceding |-> 0, following |-> 0, exclude |-> ""]

OverInit ==
    /\ odecl \in OverClauses
    /\ oframe = NoFrame
    /\ opc = "declared"
    /\ oerror = ""
    /\ OnlyOver

\* The parser reaches the Over node.
ParseOver ==
    /\ opc = "declared"
    /\ oframe' = parseFrame(odecl)
    /\ opc' = "parsed"
    /\ UNCHANGED <<odecl, oerror, notOver>>

\* compileTargets accepts the window.
CompileOver ==
    /\ opc = "parsed"
    /\ rangeValidation(oframe, odecl) = ""
    /\ opc' = "compiled"
    /\ UNCHANGED <<odecl, oframe, oerror, notOver>>

\* compileTargets throws a CompilationError.
RejectOver ==
    /\ opc = "parsed"
    /\ rangeValidation(oframe, odecl) # ""
    /\ opc' = "rejected"
    /\ oerror' = rangeValidation(oframe, odecl)
    /\ UNCHANGED <<odecl, oframe, notOver>>

OverNext == ParseOver \/ CompileOver \/ RejectOver

SpecOver == OverInit /\ [][OverNext]_vars

\* What a bound as written means as a number of rows.
boundValue(bound) ==
    IF bound.kind = "Unbounded" THEN Infinity
    ELSE IF bound.kind = "Integer" THEN bound.n ELSE 0

(***************************************************************************)
(* C14 (the captured frame): for a window declared with ROWS BETWEEN x     *)
(* PRECEDING AND y FOLLOWING the captured frame has preceding = x and      *)
(* following = y, for all x and y, UNBOUNDED meaning Infinity.             *)
(***************************************************************************)
C14_RowsFrameCaptured ==
    (opc # "declared" /\ odecl.type = "ROWS")
    => /\ oframe.type = "ROWS"
       /\ oframe.preceding = boundValue(odecl.lower)
       /\ oframe.following = boundValue(odecl.upper)

(***************************************************************************)
(* C15: a window with a RANGE frame is rejected for the shape of its       *)
(* ORDER BY exactly when the frame has an offset bound that is neither     *)
(* UNBOUNDED nor zero and the ORDER BY is not exactly one column of a      *)
(* numeric or date kind.                                                   *)
(***************************************************************************)
C15_RangeRejectedExactlyForOffsets ==
    (opc \in {"compiled", "rejected"} /\ oframe.type = "RANGE")
    => (opc = "rejected"
          <=> /\ (oframe.preceding \notin {0, Infinity}
                    \/ oframe.following \notin {0, Infinity})
              /\ ~(odecl.orderBy = 1 /\ odecl.orderType = "Number"))

(***************************************************************************)
(* windowFunction over the windows compileTargets accepts.                 *)
(***************************************************************************)
\* The clauses compileTargets accepts, with at most one ORDER BY column.
WindowClauses ==
    {d \in OverClauses : /\ d.orderBy <= 1
                         /\ d.orderType = "Number"
                         /\ rangeValidation(parseFrame(d), d) = ""}

WindowInit ==
    /\ \E n \in 0..MaxWindowRows :
           \E cells \in [1..n -> PartitionVals \X OrderVals] :
               wdata = [id \in 1..n |-> <<id, cells[id][1], cells[id][2]>>]
    /\ \E d \in WindowClauses :
           \E dir \in IF d.orderBy = 0 THEN {"ASC"} ELSE {"ASC", "DESC"} :
               /\ wframe = parseFrame(d)
               /\ worderBy = IF d.orderBy = 0 THEN <<>> ELSE <<[col |-> 3, dir |-> dir]>>
    /\ wpartitioned \in BOOLEAN
    /\ wpc = "ready"
    /\ wrecords = <<>>
    /\ OnlyWindow

\* executeSelect calls windowFunction for a window target.
WindowFunction ==
    /\ wpc = "ready"
    /\ LET r == windowFunction(wdata, wframe, worderBy, wpartitioned)
       IN  /\ wpc' = IF r.threw THEN "threw" ELSE "done"
           /\ wrecords' = IF r.threw THEN <<>> ELSE r.records
    /\ UNCHANGED <<wdata, wframe, worderBy, wpartitioned, notWindow>>

WindowNext == WindowFunction

SpecWindow == WindowInit /\ [][WindowNext]_vars

\* The sorted partition a row belongs to, and the row's position in it.
partitionOfRow(id) ==
    LET sorted == sortedPartitions(wdata, worderBy, wpartitioned)
    IN  sorted[placeOf(sorted, id)[1]]
positionOfRow(id) ==
    placeOf(sortedPartitions(wdata, worderBy, wpartitioned), id)[2]

\* The frame of a row: its window before the EXCLUDE step.
frameOfRow(id) ==
    windowOf(partitionOfRow(id), positionOfRow(id),
             [wframe EXCEPT !.exclude = "NONE"], worderBy).window

\* C12: with EXCLUDE TIES the window of every row is its frame without the
\* other rows of the row's ORDER BY equivalence class, so it keeps the
\* current row whenever the frame held it; without ORDER BY every row of
\* the partition is in that class.
C12_TiesKeepsCurrentRow ==
    (wpc = "done" /\ wframe.exclude = "TIES")
    => \A id \in 1..Len(wdata) :
           LET current == partitionOfRow(id)[positionOfRow(id)]
           IN  wrecords[id] =
                   SelectSeq(frameOfRow(id), LAMBDA it :
                       it = current
                       \/ orderValues(it, worderBy) # orderValues(current, worderBy))

\* The bucket of the row at position i of a sorted partition, counted from
\* 0: the number of distinct ORDER BY value tuples before its own.
bucketAt(partition, i) ==
    Cardinality({orderValues(partition[k], worderBy) : k \in 1..i}) - 1

\* C13: under GROUPS(p, f) the window of a row in bucket g is the rows of
\* the buckets max(0, g-p) up to but not including min(G, g+f+1), and every
\* row of every partition gets such a window.
C13_GroupsWindowForEveryRow ==
    (wpc \in {"done", "threw"} /\ wframe.type = "GROUPS" /\ wframe.exclude = "NONE")
    => /\ wpc = "done"
       /\ \A id \in 1..Len(wdata) :
              LET partition == partitionOfRow(id)
                  g == bucketAt(partition, positionOfRow(id))
                  G == bucketAt(partition, Len(partition)) + 1
                  from == Max(0, g - wframe.preceding)
                  to == Min(G, g + wframe.following + 1)
                  inside == {k \in 1..Len(partition) :
                                 /\ bucketAt(partition, k) >= from
                                 /\ bucketAt(partition, k) < to}
                  first == CHOOSE k \in inside : \A j \in inside : k <= j
                  last == CHOOSE k \in inside : \A j \in inside : k >= j
              IN  /\ inside # {}
                  /\ wrecords[id] = SubSeq(partition, first, last)

(***************************************************************************)
(* Overload dispatch: createFunction pushes an Operation on the list of    *)
(* its name, findFunction filters the list by Operation.matches and takes  *)
(* the first after a sort by sortKey (findOperator does the same on        *)
(* OPERATORS).  A DType is a string; operands have scalar types.           *)
(***************************************************************************)
MaxOverloads == 3
MaxInputs == 2
MaxOperands == 2

VARARG == "VARARG"
InputTypes == {"Integer", "Number", "Object"}
OperandTypes == {"Integer", "Number", "Null"}

\* TYPES.get(signature).extensions: INTEGER is registered with the
\* extension Number.
extensions(signature) == IF signature = "Integer" THEN {"Number"} ELSE {}

matchesType(input, signature) ==
    \/ input = "Object"
    \/ input = signature
    \/ input \in extensions(signature)

\* The inputs of an Operation for a call of nargs operands: a VARARG is
\* replaced by the type after it (Object when there is none), once per
\* operand from its place on.
expandedInputs(input, nargs) ==
    LET at == {i \in 1..Len(input) : input[i] = VARARG}
    IN  IF at = {} THEN input
        ELSE LET index == (CHOOSE i \in at : \A j \in at : i <= j) - 1
                 fill == IF index + 2 <= Len(input) THEN input[index + 2] ELSE "Object"
             IN  SubSeq(input, 1, index)
                 \o [k \in 1..Max(0, nargs - index) |-> fill]

\* Operation.matches; a missing operand has the signature undefined.
matches(input, args) ==
    LET inputs == expandedInputs(input, Len(args))
    IN  /\ Len(args) <= Len(inputs)
        /\ \A i \in 1..Len(inputs) :
               matchesType(inputs[i], IF i <= Len(args) THEN args[i] ELSE "undefined")

\* Operation.sortKey: the Object entries of the declared input.
sortKey(input) == Cardinality({i \in 1..Len(input) : input[i] = "Object"})

\* Array.prototype.sort by sortKey, which is stable, on registry indices.
RECURSIVE sortBySortKey(_, _)
sortBySortKey(registry, indices) ==
    IF indices = <<>> THEN <<>>
    ELSE LET rest == sortBySortKey(registry, Tail(indices))
             x == Head(indices)
             before == SelectSeq(rest, LAMBDA y : sortKey(registry[y]) < sortKey(registry[x]))
             after == SelectSeq(rest, LAMBDA y : sortKey(registry[y]) >= sortKey(registry[x]))
         IN  before \o <<x>> \o after

\* findFunction / findOperator: the index of the overload returned, 0 for
\* undefined.
findFunction(registry, operands) ==
    LET filtered == SelectSeq([i \in 1..Len(registry) |-> i],
                              LAMBDA i : matches(registry[i], operands))
        sorted == sortBySortKey(registry, filtered)
    IN  IF sorted = <<>> THEN 0 ELSE sorted[1]

\* The inputs an overload is declared with: fixed ones, and ones with a
\* VARARG followed by its type.
Overloads ==
    SeqsOf(InputTypes, 1, MaxInputs)
    \cup {<<VARARG, t>> : t \in InputTypes}
    \cup {<<s, VARARG, t>> : s \in InputTypes, t \in InputTypes}
OperandLists == SeqsOf(OperandTypes, 1, MaxOperands)

DispatchInit ==
    /\ dregistry = <<>>
    /\ dargs \in OperandLists
    /\ dfound = <<>>
    /\ OnlyDispatch

\* createFunction(name, inTypes, ...): push on the name's list.
CreateFunction ==
    /\ Len(dregistry) < MaxOverloads
    /\ \E inTypes \in Overloads : dregistry' = Append(dregistry, inTypes)
    /\ UNCHANGED <<dargs, dfound, notDispatch>>

\* findFunction(name, operands) on the registry as it is now.
FindFunction ==
    /\ dregistry # <<>>
    /\ \A k \in 1..Len(dfound) : dfound[k].n # Len(dregistry)
    /\ dfound' = Append(dfound, [n |-> Len(dregistry),
                                 op |-> findFunction(dregistry, dargs)])
    /\ UNCHANGED <<dregistry, dargs, notDispatch>>

DispatchNext == CreateFunction \/ FindFunction

SpecDispatch == DispatchInit /\ [][DispatchNext]_vars

\* Overload G is more general than N: it matches every operand list N
\* matches and some list N does not, among the lists of any length up to
\* one more than the longest fixed input.
AllOperandLists == SeqsOf(OperandTypes, 0, MaxInputs + 1)
moreGeneral(G, N) ==
    /\ \A a \in AllOperandLists : matches(N, a) => matches(G, a)
    /\ \E a \in AllOperandLists : matches(G, a) /\ ~matches(N, a)

\* C16: when the operands already match an overload, registering
\* overloads more general than one they match does not change the overload
\* a lookup returns.
C16_MoreGeneralKeepsDispatch ==
    \A i \in 1..Len(dfound), j \in 1..Len(dfound) :
        (/\ dfound[i].n < dfound[j].n
         /\ dfound[i].op # 0
         /\ \A k \in (dfound[i].n + 1)..dfound[j].n :
                \E m \in 1..dfound[i].n :
                    /\ matches(dregistry[m], dargs)
                    /\ moreGeneral(dregistry[k], dregistry[m]))
        => dfound[j].op = dfound[i].op

(***************************************************************************)
(* The group lookup of executeSelect, for a query with two GROUP BY        *)
(* columns, no WHERE and an aggregator that accepts every row: each table  *)
(* row is put under the first key of the aggregates Map that isEqual to    *)
(* its id, or under a new key at the end of the Map.  The store of a key   *)
(* is modelled by the rows it was updated with.  A key column holds NULL,  *)
(* an integer or a Decimal; every Decimal a row holds is an object of its  *)
(* own, and two rows may hold equal numbers in different objects.          *)
(***************************************************************************)
MaxGroupRows == 3
MaxDecimalObjects == 2

\* The Decimal object with identity ref and the numerical value n.
DecimalObject(n, ref) == [t |-> "dec", v |-> n, d |-> 1, ref |-> ref]

GroupVals == {NullV, IntV(1), IntV(2)}
             \cup {DecimalObject(1, ref) : ref \in 1..MaxDecimalObjects}
GroupIds == GroupVals \X GroupVals

\* One turn of the loop: the Map after the row at position pos with the
\* id was read.
groupRow(aggregates, id, pos) ==
    LET found == findKey(aggregates, id)
        withKey == IF found = 0
                   THEN Append(aggregates, [key |-> id, store |-> <<>>])
                   ELSE aggregates
        e == IF found = 0 THEN Len(withKey) ELSE found
    IN  [withKey EXCEPT ![e].store = Append(@, pos)]

GroupInit ==
    /\ gtable \in SeqsOf(GroupIds, 0, MaxGroupRows)
    /\ gaggregates = <<>>
    /\ gpos = 1
    /\ OnlyGroup

\* for (const ctx of query.table) { ... }
GroupRow ==
    /\ gpos <= Len(gtable)
    /\ gaggregates' = groupRow(gaggregates, gtable[gpos], gpos)
    /\ gpos' = gpos + 1
    /\ UNCHANGED <<gtable, notGroup>>

GroupNext == GroupRow

SpecGroup == GroupInit /\ [][GroupNext]_vars

\* The groups the row at position i was put in.
groupsOfRow(i) ==
    {e \in 1..Len(gaggregates) :
        \E k \in 1..Len(gaggregates[e].store) : gaggregates[e].store[k] = i}

\* Equality on Value: semantic, a Decimal by its numerical value, a NULL
\* equal to a NULL in a group key.
valueEqual(a, b) ==
    IF isNull(a) THEN isNull(b)
    ELSE /\ a.t = b.t
         /\ IF a.t = "dec" THEN a.v * b.d = b.v * a.d ELSE a.v = b.v

\* Two key tuples are Value-equal: elementwise.
tupleValueEqual(a, b) ==
    /\ Len(a) = Len(b)
    /\ \A i \in 1..Len(a) : valueEqual(a[i], b[i])

\* C17: whatever the order of the table, every row read is in one group,
\* and two rows are in the same group if and only if their group-key tuples
\* are Value-equal.
C17_GroupsAreKeyClasses ==
    \A i \in 1..(gpos - 1), j \in 1..(gpos - 1) :
        /\ Cardinality(groupsOfRow(i)) = 1
        /\ (groupsOfRow(i) = groupsOfRow(j)) <=> tupleValueEqual(gtable[i], gtable[j])

\* The same with the lookup's own comparison: two rows are in the same
\* group exactly when their key tuples are isEqual.
C17_GroupsAreIsEqualClasses ==
    \A i \in 1..(gpos - 1), j \in 1..(gpos - 1) :
        /\ Cardinality(groupsOfRow(i)) = 1
        /\ (groupsOfRow(i) = groupsOfRow(j)) <=> isEqualArray(gtable[i], gtable[j])

\* Two rows read whose keys hold the Decimal 1 in two objects: two groups.
DecimalKeysSplit ==
    /\ gpos = 3
    /\ tupleValueEqual(gtable[1], gtable[2])
    /\ ~isEqualArray(gtable[1], gtable[2])
    /\ Len(gaggregates) = 2

\* C18: evaluating a query never raises: no resolve of the aggregated plan
\* ends in an error, whatever values the operands take, NULL included.
C18_EvaluationNeverRaises == apc # "error"

\* The ON condition holds of a left row and a right row.
matchesRow(leftRow, rightRow) == truthy(resolve(jcond, joinData(leftRow, rightRow)))

\* How many rows of a side equal the row and match no row of the other side.
unmatchedLeft(leftRow) ==
    Cardinality({k \in 1..Len(jleft) :
        /\ jleft[k] = leftRow
        /\ \A j \in 1..Len(jright) : ~matchesRow(jleft[k], jright[j])})
unmatchedRight(rightRow) ==
    Cardinality({k \in 1..Len(jright) :
        /\ jright[k] = rightRow
        /\ \A i \in 1..Len(jleft) : ~matchesRow(jleft[i], jright[k])})

\* C19: the first run of a LEFT, RIGHT or FULL join returns every row of a
\* preserved side that matches no row of the other side exactly once with
\* the other side missing, and returns no such row for a row that has a
\* match.
C19_UnmatchedRowsOnce ==
    (jcalls = 1 /\ jtype \in {"LEFT", "RIGHT", "FULL"})
    => /\ jtype \in {"LEFT", "FULL"}
              => \A i \in 1..Len(jleft) :
                     Count(jout, leftOnlyRow(jleft[i])) = unmatchedLeft(jleft[i])
       /\ jtype \in {"RIGHT", "FULL"}
              => \A j \in 1..Len(jright) :
                     Count(jout, rightOnlyRow(jright[j])) = unmatchedRight(jright[j])

(***************************************************************************)
(* SET options (context.ts): prepare gathers the options of a statement    *)
(* into its settings, compile hands the Compiler the live Context for a    *)
(* table modification and a copy for anything else.  A settings object is  *)
(* a function from the option names it holds to their values.              *)
(***************************************************************************)
MaxOptions == 2
MaxSettingsStatements == 2
OptionNames == {"identifier_quoting", "timezone"}
OptionValues == {"bracket", "quoted"}
SettingsObjects == UNION {[D -> OptionValues] : D \in SUBSET OptionNames}
NoSettings == [k \in {} |-> "bracket"]

\* object[key] = value
assign(object, key, value) ==
    [k \in DOMAIN object \cup {key} |-> IF k = key THEN value ELSE object[k]]

\* for (const [key, value] of Object.entries(source)) target[key] = value
assignAll(target, source) ==
    [k \in DOMAIN target \cup DOMAIN source |->
        IF k \in DOMAIN source THEN source[k] ELSE target[k]]

\* Context.prepare: options.reduce((acc, option) => ..., {}).
RECURSIVE prepareSettings(_, _, _)
prepareSettings(options, i, acc) ==
    IF i > Len(options) THEN acc
    ELSE prepareSettings(options, i + 1, assign(acc, options[i].name, options[i].value))

\* A Context.copy that writes the settings into the Context it copies.
copyIntoThis(this, hasSettings, settings) ==
    LET written == assignAll(this, IF hasSettings THEN settings ELSE this)
    IN  [this |-> written, context |-> [settings |-> written, live |-> FALSE]]

\* Context.copy(props): a new Context, whose settings start empty, gets
\* the entries of props.settings, or of this.settings when props has none.
copySettings(this, hasSettings, settings) ==
    [this |-> this,
     context |-> [settings |-> assignAll(NoSettings, IF hasSettings THEN settings ELSE this),
                  live |-> FALSE]]

\* Context.compile: the Context the Compiler is constructed with.
compileContext(this, statement) ==
    IF statement.modification
        THEN [this |-> this, context |-> [settings |-> this, live |-> TRUE]]
    ELSE IF statement.expression
        THEN copySettings(this, FALSE, NoSettings)
    ELSE copySettings(this, TRUE, statement.settings)

Options == [name : OptionNames, value : OptionValues]
NoPrepared == [modification |-> FALSE, expression |-> FALSE, settings |-> NoSettings]
NoContext == [settings |-> NoSettings, live |-> FALSE]

SettingsInit ==
    /\ ssettings \in SettingsObjects
    /\ sstatement = NoPrepared
    /\ scontext = NoContext
    /\ spc = "idle"
    /\ sdone = 0
    /\ sbefore = ssettings
    /\ OnlySettings

\* Context.prepare(query), or an Expression built by the caller, which has
\* no settings.
Prepare ==
    /\ spc \in {"idle", "executed"}
    /\ sdone < MaxSettingsStatements
    /\ \E options \in SeqsOf(Options, 0, MaxOptions), modification \in BOOLEAN,
          expression \in BOOLEAN :
           sstatement' = [modification |-> modification,
                          expression |-> expression,
                          settings |-> IF expression THEN NoSettings
                                       ELSE prepareSettings(options, 1, NoSettings)]
    /\ sbefore' = ssettings
    /\ spc' = "prepared"
    /\ UNCHANGED <<ssettings, scontext, sdone, notSettings>>

\* Context.compile(statement)
Compile ==
    /\ spc = "prepared"
    /\ LET r == compileContext(ssettings, sstatement)
       IN  /\ ssettings' = r.this
           /\ scontext' = r.context
    /\ spc' = "compiled"
    /\ UNCHANGED <<sstatement, sdone, sbefore, notSettings>>

\* Context.execute: the resolve() of the compiled plan.
Execute ==
    /\ spc = "compiled"
    /\ spc' = "executed"
    /\ sdone' = sdone + 1
    /\ UNCHANGED <<ssettings, sstatement, scontext, sbefore, notSettings>>

SettingsNext == Prepare \/ Compile \/ Execute

SpecSettings == SettingsInit /\ [][SettingsNext]_vars

\* C20: a prepared query is compiled against a copy of the Context that
\* carries the statement's settings, and compiling and executing a
\* statement leaves the Context's own settings as they were, whatever
\* statements ran before.
C20_SettingsScopedToStatement ==
    spc \in {"compiled", "executed"}
    => /\ ssettings = sbefore
       /\ (~sstatement.modification /\ ~sstatement.expression)
              => /\ ~scontext.live
                 /\ scontext.settings = sstatement.settings

\* A second query with a SET option has been executed on a Context whose
\* own settings differ from the statement's.
C20_Witness ==
    /\ spc = "executed"
    /\ sdone = 2
    /\ ~sstatement.modification /\ ~sstatement.expression
    /\ DOMAIN sstatement.settings # {}
    /\ sstatement.settings # ssettings
    /\ scontext.settings = sstatement.settings

(***************************************************************************)
(* Compiler.compile and the placeholders of a query.  Each select target   *)
(* is either col = <placeholder> (a BooleanExpression) or                  *)
(* CASE WHEN col = 1 THEN <placeholder> END (a CaseExpression, which       *)
(* compiles whatever the type of its only THEN); a placeholder has a name  *)
(* ("" when it is positional) and its position in the text.                *)
(***************************************************************************)
MaxTargets == 2
MaxParameters == 2
MaxCompiles == 2
PlaceholderNames == {"", "a", "b"}
ParameterNames == {"a", "b"}

\* Query.children(): the select targets with the children each target's
\* expression gives.  BooleanExpression.children() returns its arguments;
\* CaseExpression inherits Expression.children(), which returns none.
children(query) ==
    SelectSeq(query, LAMBDA target : target.class = "Boolean")

\* A walk over every node of the query.
allPlaceholders(query) == query

\* placeholders.sort((a, b) => a.parseInfo.pos - b.parseInfo.pos), then
\* entry.name = index.toString(): the name of the placeholder at pos.
positionalName(placeholders, pos) ==
    CASE Cardinality({k \in 1..Len(placeholders) : placeholders[k].pos < pos}) = 0 -> "0"
      [] Cardinality({k \in 1..Len(placeholders) : placeholders[k].pos < pos}) = 1 -> "1"
      [] OTHER -> "2"

\* Compiler.compile up to the call of compileExpression: the error thrown,
\* or "plan", and the query with the names the positional branch assigns.
compile(query, parameters) ==
    LET placeholders == children(query)
        named == \A k \in 1..Len(placeholders) : placeholders[k].name # ""
        positional == \A k \in 1..Len(placeholders) : placeholders[k].name = ""
        missing == {k \in 1..Len(placeholders) : placeholders[k].name \notin parameters.keys}
        renamed == [k \in 1..Len(query) |->
                       IF query[k].class = "Boolean"
                           THEN [query[k] EXCEPT !.name = positionalName(placeholders, query[k].pos)]
                           ELSE query[k]]
        thrown(error) == [outcome |-> error, query |-> query]
    IN  IF Len(placeholders) = 0 THEN [outcome |-> "plan", query |-> query]
        ELSE IF named
            THEN IF parameters.kind = "array"
                     THEN thrown("TypeError: should be a mapping")
                 ELSE IF parameters.kind = "undefined"
                     THEN thrown("TypeError: Object.keys(undefined)")
                 ELSE IF missing # {}
                     THEN thrown("ProgrammingError: query parameter missing")
                 ELSE [outcome |-> "plan", query |-> query]
        ELSE IF positional
            THEN IF parameters.kind # "array"
                     THEN thrown("TypeError: should be a sequence")
                 ELSE IF Len(placeholders) # parameters.length
                     THEN thrown("ProgrammingError: placeholders but parameters")
                 ELSE [outcome |-> "plan", query |-> renamed]
        ELSE thrown("ProgrammingError: cannot be mixed")

SelectTargets == [class : {"Boolean", "Case"}, name : PlaceholderNames]
Parameters ==
    {[kind |-> "undefined", length |-> 0, keys |-> {}]}
    \cup {[kind |-> "array", length |-> n, keys |-> {}] : n \in 0..MaxParameters}
    \cup {[kind |-> "mapping", length |-> Cardinality(keys), keys |-> keys] :
             keys \in SUBSET ParameterNames}

ParamsInit ==
    /\ \E targets \in SeqsOf(SelectTargets, 1, MaxTargets) :
           pquery = [k \in 1..Len(targets) |->
                        [class |-> targets[k].class, name |-> targets[k].name, pos |-> k]]
    /\ pwritten = pquery
    /\ pparams = [kind |-> "undefined", length |-> 0, keys |-> {}]
    /\ poutcome = "none"
    /\ pcompiles = 0
    /\ OnlyParams

\* Context.compile(statement, parameters) on the prepared statement.
CompileQuery ==
    /\ poutcome # "off"
    /\ pcompiles < MaxCompiles
    /\ \E parameters \in Parameters :
           LET r == compile(pquery, parameters)
           IN  /\ pquery' = r.query
               /\ poutcome' = r.outcome
               /\ pparams' = parameters
    /\ pcompiles' = pcompiles + 1
    /\ UNCHANGED <<pwritten, notParams>>

ParamsNext == CompileQuery

SpecParams == ParamsInit /\ [][ParamsNext]_vars

\* What the statement as written has: named and positional placeholders.
namedWritten == {k \in 1..Len(pwritten) : allPlaceholders(pwritten)[k].name # ""}
positionalWritten == {k \in 1..Len(pwritten) : allPlaceholders(pwritten)[k].name = ""}

\* C21: the first compile of a statement gives no plan when the statement
\* mixes named and positional placeholders, when one of its named
\* placeholders is not a key of the parameter mapping, or when it has
\* positional placeholders and their number is not the number of
\* parameters supplied.
C21_BadParametersFailCompile ==
    (/\ pcompiles = 1
     /\ \/ namedWritten # {} /\ positionalWritten # {}
        \/ \E k \in namedWritten : pwritten[k].name \notin pparams.keys
        \/ positionalWritten # {} /\ Cardinality(positionalWritten) # pparams.length)
    => poutcome # "plan"

(***************************************************************************)
(* EvalPivot.resolve for PIVOT BY a, b over a query grouped by a and b     *)
(* with one value column v.  The axis values are numbers, 0 among them,    *)
(* which JavaScript takes for false, and 10 among those of b, which as a   *)
(* string comes before 2.                                                  *)
(***************************************************************************)
MaxPivotRows == 3
AxisA == {0, 1}
AxisB == {1, 2, 10}
Cells == {IntV(7), IntV(8)}

\* The values in ascending order of number.
RECURSIVE sortedKeys(_)
sortedKeys(values) ==
    IF values = {} THEN <<>>
    ELSE LET least == CHOOSE x \in values : \A y \in values : x <= y
         IN  <<least>> \o sortedKeys(values \ {least})

\* String(n) of a number n >= 0: its decimal digits.
RECURSIVE toString(_)
toString(n) == IF n < 10 THEN <<n>> ELSE Append(toString(n \div 10), n % 10)

\* s < t on strings: by the first code unit that differs, a proper prefix
\* first.
RECURSIVE stringLess(_, _)
stringLess(s, t) ==
    IF t = <<>> THEN FALSE
    ELSE IF s = <<>> THEN TRUE
    ELSE IF Head(s) # Head(t) THEN Head(s) < Head(t)
    ELSE stringLess(Tail(s), Tail(t))

\* Array.prototype.sort() without a comparator: ascending order of the
\* elements' strings.
RECURSIVE defaultSort(_)
defaultSort(values) ==
    IF values = {} THEN <<>>
    ELSE LET least == CHOOSE x \in values :
                          \A y \in values : ~stringLess(toString(y), toString(x))
         IN  <<least>> \o defaultSort(values \ {least})

\* keys = [...new Set(rows.map(it => it[col2]))].sort().
pivotKeys(rows) == defaultSort({rows[i].b : i \in 1..Len(rows)})

\* rows.sort by the first pivot column; the sort is stable.
RECURSIVE sortByAxis(_)
sortByAxis(rows) ==
    IF rows = <<>> THEN <<>>
    ELSE LET rest == sortByAxis(Tail(rows))
             x == Head(rows)
         IN  SelectSeq(rest, LAMBDA y : y.a < x.a) \o <<x>>
             \o SelectSeq(rest, LAMBDA y : y.a >= x.a)

\* The Map from axis value to its rows.  The key found is tested with
\* !id, so a key that is found but falsy is set again, to an empty group
\* at its old place in the Map.
RECURSIVE pivotMap(_, _, _)
pivotMap(rows, i, map) ==
    IF i > Len(rows) THEN map
    ELSE LET key == rows[i].a
             found == {e \in 1..Len(map) : map[e].key = key}
             id == IF found = {} THEN 0 ELSE CHOOSE e \in found : TRUE
             truthyId == id # 0 /\ key # 0
             reset == IF id = 0
                          THEN Append(map, [key |-> key, group |-> <<>>])
                      ELSE IF ~truthyId
                          THEN [map EXCEPT ![id].group = <<>>]
                      ELSE map
             e == IF id = 0 THEN Len(reset) ELSE id
         IN  pivotMap(rows, i + 1, [reset EXCEPT ![e].group = Append(@, rows[i])])

\* One pivoted row: the axis value, then the value cells of the group's
\* rows one after the other, cut or filled with null to the columns'
\* number.
pivotedRow(entry, width) ==
    [a |-> entry.key,
     cells |-> [k \in 1..width |->
                   IF k <= Len(entry.group) THEN entry.group[k].v ELSE NullV]]

\* EvalPivot.resolve
pivotResolve(rows) ==
    LET keys == pivotKeys(rows)
        map == pivotMap(sortByAxis(rows), 1, <<>>)
    IN  [e \in 1..Len(map) |-> pivotedRow(map[e], Len(keys))]

\* The rows of a query grouped by a and b: no two of the same (a, b).
PivotInputs ==
    {rows \in SeqsOf([a : AxisA, b : AxisB, v : Cells], 0, MaxPivotRows) :
        \A i \in 1..Len(rows), j \in 1..Len(rows) :
            (rows[i].a = rows[j].a /\ rows[i].b = rows[j].b) => i = j}

PivotInit ==
    /\ vrows \in PivotInputs
    /\ vpivoted = <<>>
    /\ vpc = "ready"
    /\ OnlyPivot

\* EvalPivot.resolve(context)
PivotResolve ==
    /\ vpc = "ready"
    /\ vpivoted' = pivotResolve(vrows)
    /\ vpc' = "done"
    /\ UNCHANGED <<vrows, notPivot>>

PivotNext == PivotResolve

SpecPivot == PivotInit /\ [][PivotNext]_vars

\* The value cell the pivot owes for the combination (a, b): that of the
\* grouped row, or NULL when there is none.
cellOf(a, b) ==
    IF \E i \in 1..Len(vrows) : vrows[i].a = a /\ vrows[i].b = b
        THEN (CHOOSE r \in {vrows[i] : i \in 1..Len(vrows)} : r.a = a /\ r.b = b).v
        ELSE NullV

\* C22: the pivot returns one row per distinct value of a, in the order of
\* a, and the row of a holds under the column of every b the value cell
\* of the grouped row (a, b), NULL when there is no such row; this for
\* every axis value, 0 included.
C22_PivotCellsUnderTheirColumn ==
    vpc = "done"
    => LET axis == sortedKeys({vrows[i].a : i \in 1..Len(vrows)})
           keys == pivotKeys(vrows)
       IN  /\ Len(vpivoted) = Len(axis)
           /\ \A e \in 1..Len(axis) :
                  /\ vpivoted[e].a = axis[e]
                  /\ \A k \in 1..Len(keys) :
                         vpivoted[e].cells[k] = cellOf(axis[e], keys[k])

\* An equality between a column reference of the left table and one of the
\* joined table, in either order.
splitEquality(expr) ==
    /\ expr.node = "Boolean" /\ expr.op = "=" /\ Len(expr.args) = 2
    /\ expr.args[1].node = "Attribute" /\ expr.args[2].node = "Attribute"
    /\ (expr.args[1].operand = rightKey) # (expr.args[2].operand = rightKey)

\* A conjunction of such equalities (one equality is a conjunction of one).
equalityConjunction(expr) ==
    \/ splitEquality(expr)
    \/ /\ expr.node = "Boolean" /\ expr.op = "AND"
       /\ \A i \in 1..Len(expr.args) : splitEquality(expr.args[i])

(***************************************************************************)
(* C23: a join has run through the hash dataLoader only if its ON          *)
(* condition is a conjunction of equalities between column references, one *)
(* of each side; a join with any other ON condition has run through the    *)
(* nested loop.                                                            *)
(***************************************************************************)
C23_HashOnlyForEqualityConjunction ==
    /\ jpath = "hash" => equalityConjunction(jcond)
    /\ (jcalls >= 1 /\ ~equalityConjunction(jcond)) => jpath = "nested"

\* The join of the current left and right rows: the dataLoader run on a
\* closure in which nothing has been collected.
freshJoin(path, expr, type, left, right) ==
    dataLoader(path, expr, type, left, right, closureOf(<<>>, {}, {})).out

(***************************************************************************)
(* C25: what a run of a join's dataLoader returns is the join of the       *)
(* current left and right rows alone: the result rows and the matched-row  *)
(* marks of an earlier run of the same dataLoader are not in it.           *)
(***************************************************************************)
C25_LoaderReturnsCurrentJoinOnly ==
    jcalls >= 1 => jout = freshJoin(jpath, jcond, jtype, jleft, jright)

(***************************************************************************)
(* The calls executeSelect makes on the aggregators of a grouped query     *)
(* (query_execute.ts 95-157): allocator.createStore and initialize for a   *)
(* new key, update on the aggregators that accept the row, then finalize   *)
(* and the output row of every store.  A row of the table has its group    *)
(* column g, the verdict w of the WHERE clause on it and the column p that *)
(* a FILTER (WHERE p) reads.  A store is known by its key; a query without *)
(* GROUP BY has the one key [], written 0, and so has the store made when  *)
(* no row was grouped.  flog is the sequence of calls.                     *)
(***************************************************************************)
MaxStoreRows == 3
MaxAggregators == 2

StoreKeys == {1, 2}
StoreRows == [g : StoreKeys, w : BOOLEAN, p : BOOLEAN]
Filters == {"none", "p"}

\* EvalAggregator.accept: !this.filter || this.filter.resolve(context).
accept(filter, context) == filter = "none" \/ context.p

\* aggr.forEach((it) => it.initialize(store)) and it.finalize(store).
forEachCall(call, filters, key) ==
    [i \in 1..Len(filters) |-> [call |-> call, key |-> key, aggr |-> i, row |-> 0]]

\* aggr.filter((it) => it.accept(context)): the aggregators update is called on.
everyAggregator(filters, context) ==
    [i \in 1..Len(filters) |-> i]
accepted(filters, context) ==
    SelectSeq([i \in 1..Len(filters) |-> i], LAMBDA i : accept(filters[i], context))

\* .forEach((it) => it.update(store, context)).
updateCalls(filters, context, key, row) ==
    LET on == accepted(filters, context)
    IN  [n \in 1..Len(on) |-> [call |-> "update", key |-> key, aggr |-> on[n], row |-> row]]

\* nonAggr.map((it) => it.resolve(context)): the key of a row.
storeKey(grouped, context) == IF grouped THEN context.g ELSE 0

\* The body of the loop over query.table for the row at position row.
scanCalls(filters, grouped, keys, context, row) ==
    IF ~context.w THEN [keys |-> keys, calls |-> <<>>]
    ELSE LET id == storeKey(grouped, context)
             found == \E n \in 1..Len(keys) : keys[n] = id
         IN  [keys |-> IF found THEN keys ELSE Append(keys, id),
              calls |-> (IF found THEN <<>> ELSE forEachCall("initialize", filters, id))
                        \o updateCalls(filters, context, id, row)]

\* The body of the loop over aggregates.entries(): finalize, then rows.push.
pushRow(key) == [call |-> "row", key |-> key, aggr |-> 0, row |-> 0]
finalizeCalls(filters, key) ==
    Append(forEachCall("finalize", filters, key), pushRow(key))

\* Lines 152-157: no store was created and every column is an aggregate.
emptyCalls(filters) ==
    forEachCall("initialize", filters, 0) \o finalizeCalls(filters, 0)

StoreInit ==
    /\ ftable \in SeqsOf(StoreRows, 0, MaxStoreRows)
    /\ ffilters \in SeqsOf(Filters, 1, MaxAggregators)
    /\ fgrouped \in BOOLEAN
    /\ fvisible \in (IF fgrouped THEN BOOLEAN ELSE {FALSE})
    /\ fpos = 0
    /\ fkeys = <<>>
    /\ fdone = 0
    /\ flog = <<>>
    /\ fpc = "scan"
    /\ OnlyStore

\* for (const ctx of query.table) { ... }: one row.
ScanTable ==
    /\ fpc = "scan" /\ fpos < Len(ftable)
    /\ LET r == scanCalls(ffilters, fgrouped, fkeys, ftable[fpos + 1], fpos + 1)
       IN  /\ fkeys' = r.keys
           /\ flog' = flog \o r.calls
    /\ fpos' = fpos + 1
    /\ UNCHANGED <<ftable, ffilters, fgrouped, fvisible, fdone, fpc, notStore>>

\* for (const [key, store] of aggregates.entries()) { ... }: one store.
FinalizeStore ==
    /\ fpc \in {"scan", "finalize"} /\ fpos = Len(ftable) /\ fdone < Len(fkeys)
    /\ flog' = flog \o finalizeCalls(ffilters, fkeys[fdone + 1])
    /\ fdone' = fdone + 1
    /\ fpc' = IF fdone + 1 = Len(fkeys) THEN "done" ELSE "finalize"
    /\ UNCHANGED <<ftable, ffilters, fgrouped, fvisible, fpos, fkeys, notStore>>

\* if (aggregates.size == 0 && query.columns.every((it) => it.aggregate)).
EmptyStore ==
    /\ fpc = "scan" /\ fpos = Len(ftable) /\ Len(fkeys) = 0
    /\ flog' = flog \o (IF everyColumnAggregate(fgrouped, fvisible)
                         THEN emptyCalls(ffilters) ELSE <<>>)
    /\ fpc' = "done"
    /\ UNCHANGED <<ftable, ffilters, fgrouped, fvisible, fpos, fkeys, fdone, notStore>>

StoreNext == ScanTable \/ FinalizeStore \/ EmptyStore

SpecStore == StoreInit /\ [][StoreNext]_vars

callsOf(call, key, i) ==
    {n \in 1..Len(flog) : flog[n].call = call /\ flog[n].key = key /\ flog[n].aggr = i}
storesCreated == {flog[n].key : n \in 1..Len(flog)}

(***************************************************************************)
(* C24: on every store, initialize is called once by each aggregator, and  *)
(* before any update on that store; update is called for a row on the      *)
(* aggregators whose FILTER accepts the row and on no other; finalize is   *)
(* called only once the table has been read to its end, by each            *)
(* aggregator, directly before the store's output row is pushed.           *)
(***************************************************************************)
C24_InitializeUpdateFinalizeOrder ==
    LET A == 1..Len(ffilters)
    IN  /\ \A k \in storesCreated : \A i \in A :
              /\ Cardinality(callsOf("initialize", k, i)) = 1
              /\ \A n \in 1..Len(flog) :
                     (flog[n].call = "update" /\ flog[n].key = k)
                     => \E m \in callsOf("initialize", k, i) : m < n
        /\ \A r \in 1..fpos : \A i \in A :
              (\E n \in 1..Len(flog) :
                   flog[n].call = "update" /\ flog[n].row = r /\ flog[n].aggr = i)
              <=> (ftable[r].w /\ accept(ffilters[i], ftable[r]))
        /\ \A n \in 1..Len(flog) :
              /\ flog[n].call = "finalize" =>
                     /\ fpos = Len(ftable)
                     /\ \A m \in 1..Len(flog) : flog[m].call = "update" => m < n
              /\ flog[n].call = "row" =>
                     /\ n > Len(ffilters)
                     /\ \A i \in A :
                            flog[n - Len(ffilters) + i - 1] =
                                [call |-> "finalize", key |-> flog[n].key,
                                 aggr |-> i, row |-> 0]

\* A query has pushed the rows of two stores, and one of its aggregators was
\* not updated for a row that another was updated for.
C24_Witness ==
    /\ fpc = "done" /\ Len(fkeys) = 2
    /\ \E r \in 1..Len(ftable) : \E i, j \in 1..Len(ffilters) :
           /\ ftable[r].w
           /\ accept(ffilters[i], ftable[r]) /\ ~accept(ffilters[j], ftable[r])
    /\ \E n \in 1..Len(flog) : flog[n].call = "row"

(***************************************************************************)
(* C26: a multi-row INSERT is all-or-nothing: when one of its rows fails   *)
(* the type coercion or a constraint, the table holds exactly the rows it  *)
(* held before the INSERT, and none of the statement's earlier rows.       *)
(***************************************************************************)
C26_InsertAllOrNothing == ipc = "error" => idata = ibefore

(***************************************************************************)
(* CREATE TABLE plans compiled in the live context and resolved later.     *)
(* Compiler.compileCreateTable looks the name up in context.tables and     *)
(* EvalCreateTable's constructor makes the plan's table, on a data array   *)
(* of its own; EvalCreateTable.resolve registers the plan's table.  A      *)
(* table is known by the position of its data array in rdata, 0 is no      *)
(* table.  CREATE TABLE name AS reads a query whose rows are queryData.    *)
(***************************************************************************)
MaxPlans == 2
MaxPlanSteps == 3

queryData == <<2>>
NoPlan == [kind |-> "none", name |-> "none", table |-> 0, as |-> FALSE, resolved |-> 0]

\* Compiler.compileCreateTable and new EvalCreateTable(...).
compileCreateTable(tables, data, name, ifNotExists, as) ==
    IF tables[name] # 0
        THEN IF ifNotExists
                 THEN [error |-> "", data |-> data,
                       plan |-> [NoPlan EXCEPT !.kind = "constant", !.name = name]]
                 ELSE [error |-> "exists", data |-> data, plan |-> NoPlan]
        ELSE [error |-> "", data |-> Append(data, <<>>),
              plan |-> [kind |-> "create", name |-> name, table |-> Len(data) + 1,
                        as |-> as, resolved |-> 0]]

\* EvalCreateTable.resolve: this.table.data(queryData) is a copy of the
\* plan's table on the query's rows; withTables sets the name to the table.
createTableResolve(tables, data, plan) ==
    LET data1 == IF plan.as THEN Append(data, queryData) ELSE data
        table == IF plan.as THEN Len(data1) ELSE plan.table
    IN  [tables |-> withTables(tables, plan.name, table),
         data |-> data1,
         plan |-> [plan EXCEPT !.table = table, !.resolved = @ + 1]]

PlansInit ==
    /\ rtables = [n \in Names |-> 0]
    /\ rdata = <<>>
    /\ rplans = <<>>
    /\ rsteps = 0
    /\ rlast = [kind |-> "none", name |-> "none", plan |-> 0, before |-> 0,
                rows |-> <<>>]
    /\ OnlyPlans

\* context.compile("CREATE TABLE [IF NOT EXISTS] name ... [AS SELECT ...]")
CompileCreateTable ==
    /\ rlast # <<>> /\ Len(rplans) < MaxPlans
    /\ \E name \in Names, ifNotExists \in BOOLEAN, as \in BOOLEAN :
           LET r == compileCreateTable(rtables, rdata, name, ifNotExists, as)
           IN  /\ rdata' = r.data
               /\ rplans' = Append(rplans, r.plan)
               /\ rlast' = [kind |-> IF r.error = "" THEN "compile" ELSE r.error,
                            name |-> name, plan |-> Len(rplans) + 1,
                            before |-> rtables[name], rows |-> <<>>]
    /\ UNCHANGED <<rtables, rsteps, notPlans>>

\* plan.resolve() of a compiled CREATE TABLE.
ResolveCreateTable ==
    /\ rlast # <<>> /\ rsteps < MaxPlanSteps
    /\ \E i \in 1..Len(rplans) :
           /\ rplans[i].kind = "create"
           /\ LET r == createTableResolve(rtables, rdata, rplans[i])
              IN  /\ rtables' = r.tables
                  /\ rdata' = r.data
                  /\ rplans' = [rplans EXCEPT ![i] = r.plan]
                  /\ rlast' = [kind |-> "resolve", name |-> rplans[i].name,
                               plan |-> i, before |-> rtables[rplans[i].name],
                               rows |-> IF rtables[rplans[i].name] = 0 THEN <<>>
                                        ELSE rdata[rtables[rplans[i].name]]]
    /\ rsteps' = rsteps + 1
    /\ UNCHANGED notPlans

\* context.execute("INSERT INTO name VALUES (1)") on a registered table.
InsertIntoCreated ==
    /\ rlast # <<>> /\ rsteps < MaxPlanSteps
    /\ \E name \in Names :
           /\ rtables[name] # 0
           /\ rdata' = [rdata EXCEPT ![rtables[name]] = Append(@, 1)]
           /\ rlast' = [kind |-> "insert", name |-> name, plan |-> 0,
                        before |-> rtables[name], rows |-> rdata[rtables[name]]]
    /\ rsteps' = rsteps + 1
    /\ UNCHANGED <<rtables, rplans, notPlans>>

PlansNext == CompileCreateTable \/ ResolveCreateTable \/ InsertIntoCreated

SpecPlans == PlansInit /\ [][PlansNext]_vars

(***************************************************************************)
(* C27: resolving a CREATE TABLE plan does not replace a table that is in  *)
(* the catalog when the plan is resolved: after the resolve the name still *)
(* has the table registered first, and the rows inserted into it.          *)
(***************************************************************************)
C27_ResolveKeepsExistingTable ==
    (rlast # <<>> /\ rlast.kind = "resolve" /\ rlast.before # 0)
    => /\ rtables[rlast.name] = rlast.before
       /\ rdata[rtables[rlast.name]] = rlast.rows

(***************************************************************************)
(* C28: the catalog of the Context holds only tables it was given and      *)
(* tables made by CREATE TABLE statements: an alias registered while a     *)
(* FROM clause was compiled, or the name of a common table expression, is  *)
(* never an entry of the catalog, also when the query stands in a block    *)
(* with a CREATE TABLE or an INSERT.                                       *)
(***************************************************************************)
C28_CatalogHoldsOnlyCreatedTables ==
    \A n \in CatalogNames : ctables[n].kind \notin {"alias", "cte"}

(***************************************************************************)
(* COALESCE(args): Compiler.compileFunction asks for arguments of one type *)
(* and EvalCoalesce.resolve walks them.  The arguments are columns of that *)
(* type, each resolving to a value of the type or to null.  A value is     *)
(* [t, v]: an INTEGER v, a BOOLEAN (v = 1 for TRUE, 0 for FALSE), or a     *)
(* STRING of v characters.                                                 *)
(***************************************************************************)
MaxCoalesceArgs == 3

CoalesceTypes == {"int", "bool", "str"}
CoalesceValues(type) == {NullV, [t |-> type, v |-> 0], [t |-> type, v |-> 1]}

\* EvalCoalesce.resolve, from the i-th argument on: the first argument whose
\* value passes if (value); falling out of the loop returns undefined, which
\* isNull takes for null.
RECURSIVE coalesceFrom(_, _)
coalesceFrom(args, i) ==
    IF i > Len(args) THEN NullV
    ELSE IF truthy(args[i]) THEN args[i]
    ELSE coalesceFrom(args, i + 1)

coalesceResolve(args) == coalesceFrom(args, 1)

CoalesceInit ==
    /\ htype \in CoalesceTypes
    /\ hargs \in SeqsOf(CoalesceValues(htype), 1, MaxCoalesceArgs)
    /\ hresult = NullV
    /\ hpc = "ready"
    /\ OnlyCoalesce

\* EvalCoalesce.resolve(context)
Coalesce ==
    /\ hpc = "ready"
    /\ hresult' = coalesceResolve(hargs)
    /\ hpc' = "done"
    /\ UNCHANGED <<htype, hargs, notCoalesce>>

CoalesceNext == Coalesce

SpecCoalesce == CoalesceInit /\ [][CoalesceNext]_vars

(***************************************************************************)
(* C29: COALESCE returns the value of its first argument that is not NULL, *)
(* the values 0, FALSE and the empty string included, and NULL when every  *)
(* argument is NULL.                                                       *)
(***************************************************************************)
C29_CoalesceFirstNonNull ==
    hpc = "done" =>
        IF \A i \in 1..Len(hargs) : isNull(hargs[i])
            THEN isNull(hresult)
            ELSE \E i \in 1..Len(hargs) :
                     /\ ~isNull(hargs[i])
                     /\ \A j \in 1..(i - 1) : isNull(hargs[j])
                     /\ hresult = hargs[i]

(***************************************************************************)
(* C30: the handles are allocated once, when the plan is compiled: from    *)
(* the compiled plan on, every aggregator of the plan has an integer       *)
(* handle of its own, the same in every execution, and every group store   *)
(* has one slot per handle.                                                *)
(***************************************************************************)
C30_HandlesAllocatedAtCompileTime ==
    /\ \A i \in 1..Len(aaggrs) : ahandle[i] = IntV(i - 1)
    /\ \A i, j \in 1..Len(aaggrs) : ahandle[i] = ahandle[j] => i = j
    /\ \A e \in 1..Len(aaggregates) : Len(aaggregates[e].store) = Len(aaggrs)

\* A plan of plain aggregators that was compiled and not yet executed: its
\* aggregators have no handle.
CompiledPlanHasNoHandles ==
    /\ ~aover
    /\ aresolves = 0
    /\ \A i \in 1..Len(aaggrs) : isNull(ahandle[i])

\* A plan of two window functions was executed over a table with a row:
\* EvalWindow.execute gave each of the two aggregators the handle 0.
WindowHandlesCollide ==
    /\ aover
    /\ apc = "done"
    /\ Len(aaggrs) = 2
    /\ ahandle[1] = IntV(0)
    /\ ahandle[2] = IntV(0)

\* The handles the plan's aggregators have are never allocated again: a
\* step changes no handle that was allocated before it.
HandlesAllocatedOnce ==
    [][\A i \in 1..Len(aaggrs) : ~isNull(ahandle[i]) => ahandle'[i] = ahandle[i]]_vars

====
